---- MODULE Spec2Model ----
(***************************************************************************)
(* Model of the extraction / normalisation pipeline of the stock-market    *)
(* dashboard (frontend App component): transformRawData, the per-site      *)
(* canonicalisation of the detail modal, extractStockData.                 *)
(*                                                                         *)
(* Text is a sequence of characters.  A character is a one-element string; *)
(* a Han character is written as its pinyin syllable ("Shang" for 上),     *)
(* the ideographic full stop 。 as "Stop".                                 *)
(***************************************************************************)
EXTENDS Integers, Sequences, FiniteSets, TLC

-----------------------------------------------------------------------------
(* Characters and the character classes the patterns use.                  *)

Digits == {"0", "1", "2", "3", "4", "5", "6", "7", "8", "9"}

Letters == {"A", "B", "G", "L", "N", "O", "P", "_", "a", "b", "c", "d", "e",
            "f", "g", "h", "i", "k", "l", "m", "n", "o", "p", "r", "s", "t",
            "u", "v", "w", "y"}

\* [一-龥]: the Han characters that occur in the texts of the model
Han == {"Shang", "Zheng", "Zhi", "Shu", "Shen", "Cheng", "Chuang", "Ye",
        "Ban", "Hu", "Zhong", "Ke", "Bei", "Gui", "Zhou", "Mao", "Tai",
        "Pu", "Fa", "Yin", "Hang", "Dai", "Ma", "Ming", "Chen", "Jia", "Ge",
        "Shi", "Chang", "Qing", "Jin", "Ri", "Da", "Pan", "Zhang", "Die",
        "Fu", "Xia", "Gong", "Gong1", "Si", "Wei", "Ti", "Wan", "Qian", "Heng",
        "Sheng"}

\* [一-龥A-Za-z0-9]
NameChars == Han \cup (Letters \ {"_"}) \cup Digits

\* \w of a JavaScript pattern without the u flag
WordChars == Letters \cup Digits

\* \s
Spaces == {" "}

-----------------------------------------------------------------------------
(* Regular expressions.  A pattern is a sequence of elements, matched the   *)
(* way the JavaScript engine matches them: leftmost, greedy, backtracking.  *)

\* c{lo,hi} over a character class; hi = -1 is "no upper limit"
Cls(cs, lo, hi) == [k |-> "set", cs |-> cs, neg |-> FALSE, lo |-> lo, hi |-> hi]
\* [^c]{lo,hi}
NotCls(cs, lo, hi) == [k |-> "set", cs |-> cs, neg |-> TRUE, lo |-> lo, hi |-> hi]
\* ( and ) of capture group g
Open(g) == [k |-> "open", g |-> g]
Close(g) == [k |-> "close", g |-> g]
\* (...)? : the body, or nothing
Opt(body) == [k |-> "opt", body |-> body]
\* a|b|c : the alternatives in order
Alt(alts) == [k |-> "alt", alts |-> alts]
\* a literal string
Lit(s) == [k |-> "lit", s |-> s]
\* \b, ^ and $
WordBoundary == [k |-> "wb"]
Bol == [k |-> "bol"]
Eol == [k |-> "eol"]

NoMatch == [ok |-> FALSE]

InCls(e, c) == IF e.neg THEN c \notin e.cs ELSE c \in e.cs

\* the number of characters from pos on that element e can take
RECURSIVE RunLen(_, _, _, _)
RunLen(e, text, pos, n) ==
  IF pos + n > Len(text) THEN n
  ELSE IF e.hi >= 0 /\ n >= e.hi THEN n
  ELSE IF InCls(e, text[pos + n]) THEN RunLen(e, text, pos, n + 1)
  ELSE n

HasLit(text, pos, s) ==
  /\ pos + Len(s) - 1 <= Len(text)
  /\ \A i \in 1..Len(s) : text[pos + i - 1] = s[i]

IsWordAt(text, i) == i >= 1 /\ i <= Len(text) /\ text[i] \in WordChars

AtWordBoundary(text, pos) == IsWordAt(text, pos - 1) # IsWordAt(text, pos)

RECURSIVE MatchAt(_, _, _, _)
RECURSIVE TryCounts(_, _, _, _, _, _)
RECURSIVE TryAlts(_, _, _, _, _, _)

\* pattern p matched at position pos: [ok, end, caps], caps[g] = <<from, to>>
\* (to exclusive), <<0, 0>> for a group that took no part in the match
MatchAt(p, text, pos, caps) ==
  IF p = <<>> THEN [ok |-> TRUE, end |-> pos, caps |-> caps]
  ELSE LET e == Head(p)
           rest == Tail(p)
       IN CASE e.k = "set" ->
                 TryCounts(rest, text, pos, caps, RunLen(e, text, pos, 0), e.lo)
            [] e.k = "open" ->
                 MatchAt(rest, text, pos, [caps EXCEPT ![e.g] = <<pos, pos>>])
            [] e.k = "close" ->
                 MatchAt(rest, text, pos, [caps EXCEPT ![e.g] = <<caps[e.g][1], pos>>])
            [] e.k = "opt" -> TryAlts(<<e.body, <<>> >>, 1, rest, text, pos, caps)
            [] e.k = "alt" -> TryAlts(e.alts, 1, rest, text, pos, caps)
            [] e.k = "lit" ->
                 IF HasLit(text, pos, e.s)
                 THEN MatchAt(rest, text, pos + Len(e.s), caps)
                 ELSE NoMatch
            [] e.k = "wb" ->
                 IF AtWordBoundary(text, pos) THEN MatchAt(rest, text, pos, caps)
                 ELSE NoMatch
            [] e.k = "bol" ->
                 IF pos = 1 THEN MatchAt(rest, text, pos, caps) ELSE NoMatch
            [] e.k = "eol" ->
                 IF pos = Len(text) + 1 THEN MatchAt(rest, text, pos, caps)
                 ELSE NoMatch

\* r when it is a match, otherwise the next choice
OrElse(r, next) == IF r.ok THEN r ELSE next

\* greedy: the longest run first, one character less on each failure
TryCounts(rest, text, pos, caps, n, lo) ==
  IF n < lo THEN NoMatch
  ELSE OrElse(MatchAt(rest, text, pos + n, caps),
              TryCounts(rest, text, pos, caps, n - 1, lo))

\* the alternatives in order; (...)? is the body, then nothing
TryAlts(alts, i, rest, text, pos, caps) ==
  IF i > Len(alts) THEN NoMatch
  ELSE OrElse(MatchAt(alts[i] \o rest, text, pos, caps),
              TryAlts(alts, i + 1, rest, text, pos, caps))

NoCaps(ng) == [g \in 1..ng |-> <<0, 0>>]

\* the first match at or after position from: [ok, start, end, caps]
Found(r, from, next) ==
  IF r.ok THEN [ok |-> TRUE, start |-> from, end |-> r.end, caps |-> r.caps]
  ELSE next

RECURSIVE Exec(_, _, _, _)
Exec(p, ng, text, from) ==
  IF from > Len(text) + 1 THEN NoMatch
  ELSE Found(MatchAt(p, text, from, NoCaps(ng)), from, Exec(p, ng, text, from + 1))

\* String.prototype.matchAll / match with the g flag: the successive matches
RECURSIVE MatchAllFrom(_, _, _, _)
RECURSIVE MatchAllNext(_, _, _, _)
MatchAllFrom(p, ng, text, from) == MatchAllNext(p, ng, text, Exec(p, ng, text, from))

\* the match m and the matches after it; an empty match moves on by one
MatchAllNext(p, ng, text, m) ==
  IF ~m.ok THEN <<>>
  ELSE <<m>> \o MatchAllFrom(p, ng, text, IF m.end = m.start THEN m.end + 1 ELSE m.end)

MatchAll(p, ng, text) == MatchAllFrom(p, ng, text, 1)

\* RegExp.prototype.test
Test(p, text) == Exec(p, 0, text, 1).ok

\* match[g]: the text of group g, <<>> when the group took no part
Group(text, m, g) ==
  IF m.caps[g][1] = 0 THEN <<>>
  ELSE SubSeq(text, m.caps[g][1], m.caps[g][2] - 1)

\* match[0]
Whole(text, m) == SubSeq(text, m.start, m.end - 1)

-----------------------------------------------------------------------------
(* JavaScript values, as far as the pipeline looks at them.                 *)

Undef == [t |-> "undefined"]
Null == [t |-> "null"]
JStr(s) == [t |-> "string", s |-> s]
\* a number is the fraction num / den, den a power of ten; NaN has its own tag
JNum(num, den) == [t |-> "number", num |-> num, den |-> den]
NaN == [t |-> "nan"]
JBool(b) == [t |-> "boolean", b |-> b]
JArr(a) == [t |-> "array", a |-> a]
\* f maps the own property names to their values
JObj(f) == [t |-> "object", f |-> f]
EmptyObj == [t |-> "object", f |-> <<>>]
\* an object whose every property read raises (a getter that throws)
Throwing == [t |-> "throwing"]

\* an exception left the operation
Raised == [threw |-> TRUE]

\* ToBoolean
Truthy(v) ==
  CASE v.t \in {"undefined", "null", "nan"} -> FALSE
    [] v.t = "string" -> v.s # <<>>
    [] v.t = "number" -> v.num # 0
    [] v.t = "boolean" -> v.b
    [] OTHER -> TRUE

\* typeof v === 'object'
IsObjectType(v) == v.t \in {"null", "array", "object", "throwing"}

\* a || b
Or(a, b) == IF Truthy(a) THEN a ELSE b

\* v.length
LengthOf(v) ==
  CASE v.t = "string" -> JNum(Len(v.s), 1)
    [] v.t = "array" -> JNum(Len(v.a), 1)
    [] v.t = "object" /\ "length" \in DOMAIN v.f -> v.f["length"]
    [] OTHER -> Undef

\* the decimal digits of a natural number
RECURSIVE NatChars(_)
NatChars(n) ==
  LET d == <<"0", "1", "2", "3", "4", "5", "6", "7", "8", "9">>[(n % 10) + 1]
  IN IF n < 10 THEN <<d>> ELSE NatChars(n \div 10) \o <<d>>

\* the fraction digits of r / den, without trailing zeros
RECURSIVE FracChars(_, _)
FracChars(r, den) ==
  IF r = 0 \/ den = 1 THEN <<>>
  ELSE NatChars((r * 10) \div den) \o FracChars((r * 10) % den, den)

\* String(v)
RECURSIVE ToStr(_)
RECURSIVE JoinWith(_, _)

\* a.join(sep) of a sequence of values: null and undefined give ''
JoinWith(a, sep) ==
  IF a = <<>> THEN <<>>
  ELSE LET h == IF Head(a).t \in {"null", "undefined"} THEN <<>> ELSE ToStr(Head(a))
       IN IF Len(a) = 1 THEN h ELSE h \o sep \o JoinWith(Tail(a), sep)

ToStr(v) ==
  CASE v.t = "string" -> v.s
    [] v.t = "null" -> <<"n", "u", "l", "l">>
    [] v.t = "undefined" -> <<"u", "n", "d", "e", "f", "i", "n", "e", "d">>
    [] v.t = "nan" -> <<"N", "a", "N">>
    [] v.t = "boolean" -> IF v.b THEN <<"t", "r", "u", "e">>
                          ELSE <<"f", "a", "l", "s", "e">>
    [] v.t = "number" ->
         LET mag == IF v.num < 0 THEN 0 - v.num ELSE v.num
             fr == FracChars(mag % v.den, v.den)
         IN (IF v.num < 0 THEN <<"-">> ELSE <<>>) \o NatChars(mag \div v.den)
            \o (IF fr = <<>> THEN <<>> ELSE <<".">> \o fr)
    [] v.t = "array" -> JoinWith(v.a, <<",">>)
    [] OTHER -> <<"[", "o", "b", "j", "e", "c", "t", " ", "O", "b", "j", "e", "c", "t", "]">>

\* the property read v.k raises a TypeError
GetThrows(v) == v.t \in {"undefined", "null", "throwing"}

\* the named own properties of v (an array may carry some beside its elements)
Props(v) ==
  CASE v.t = "object" -> v.f
    [] v.t = "array" /\ "f" \in DOMAIN v -> v.f
    [] OTHER -> <<>>

\* v.k, for a v on which the read does not raise
Get(v, k) ==
  CASE k = "length" -> LengthOf(v)
    [] k \in DOMAIN Props(v) -> Props(v)[k]
    [] OTHER -> Undef

\* v.k = w on an object or an array
Put(v, k, w) ==
  LET f == [n \in (DOMAIN Props(v)) \cup {k} |-> IF n = k THEN w ELSE Props(v)[n]]
  IN IF v.t = "array" THEN [t |-> "array", a |-> v.a, f |-> f] ELSE JObj(f)

\* Object.keys(v).length
KeyCount(v) ==
  CASE v.t = "array" -> Len(v.a) + Cardinality(DOMAIN Props(v))
    [] v.t = "object" -> Cardinality(DOMAIN v.f)
    [] v.t = "throwing" -> 1
    [] OTHER -> 0

\* [...v]: the elements of an iterable; anything else is not iterable
Spread(v) ==
  CASE v.t = "array" -> [ok |-> TRUE, a |-> v.a]
    [] v.t = "string" -> [ok |-> TRUE, a |-> [i \in 1..Len(v.s) |-> JStr(<<v.s[i]>>)]]
    [] OTHER -> [ok |-> FALSE]

\* a > n for the lengths the code compares with a number (undefined > n is false)
NumGt(v, n) == v.t = "number" /\ v.num > n * v.den
NumGe(v, n) == v.t = "number" /\ v.num >= n * v.den

NA == <<"N", "/", "A">>

-----------------------------------------------------------------------------
(* parseFloat                                                               *)

DigitVal(c) ==
  CASE c = "0" -> 0 [] c = "1" -> 1 [] c = "2" -> 2 [] c = "3" -> 3
    [] c = "4" -> 4 [] c = "5" -> 5 [] c = "6" -> 6 [] c = "7" -> 7
    [] c = "8" -> 8 [] c = "9" -> 9

RECURSIVE DigitsVal(_)
DigitsVal(s) ==
  IF s = <<>> THEN 0
  ELSE 10 * DigitsVal(SubSeq(s, 1, Len(s) - 1)) + DigitVal(s[Len(s)])

RECURSIVE Pow10(_)
Pow10(n) == IF n = 0 THEN 1 ELSE 10 * Pow10(n - 1)

\* the longest numeric prefix: blanks, a sign, digits with an optional
\* fraction, or a fraction alone
FloatPrefix ==
  <<Bol, Cls(Spaces, 0, -1), Open(1), Cls({"+", "-"}, 0, 1), Close(1),
    Alt(<< <<Open(2), Cls(Digits, 1, -1), Close(2),
             Opt(<<Lit(<<".">>), Open(3), Cls(Digits, 0, -1), Close(3)>>)>>,
           <<Lit(<<".">>), Open(3), Cls(Digits, 1, -1), Close(3)>> >>)>>

\* the number with this sign, integer digits and fraction digits
Decimal(negative, ip, fp) ==
  JNum((IF negative THEN -1 ELSE 1) * (DigitsVal(ip) * Pow10(Len(fp)) + DigitsVal(fp)),
       Pow10(Len(fp)))

FloatOf(s, m) ==
  IF ~m.ok THEN NaN
  ELSE Decimal(Group(s, m, 1) = <<"-">>, Group(s, m, 2), Group(s, m, 3))

\* parseFloat(s) of a character sequence
ParseFloatStr(s) == FloatOf(s, Exec(FloatPrefix, 3, s, 1))

-----------------------------------------------------------------------------
(* transformRawData: structure recovered from free text by patterns.        *)

Seps == {":", " ", ","}
Sign == {"+", "-"}

\* [+-]?\d+\.?\d*
SignedDecimal ==
  <<Cls(Sign, 0, 1), Cls(Digits, 1, -1), Cls({"."}, 0, 1), Cls(Digits, 0, -1)>>

\* (\d{6})[:\s,]+([一-龥A-Za-z0-9]+)[:\s,]+(\d+\.?\d*)[:\s,]*([+-]?\d+\.?\d*)?[:\s,]*([+-]?\d+\.?\d*%)?
stockPattern ==
  <<Open(1), Cls(Digits, 6, 6), Close(1), Cls(Seps, 1, -1),
    Open(2), Cls(NameChars, 1, -1), Close(2), Cls(Seps, 1, -1),
    Open(3), Cls(Digits, 1, -1), Cls({"."}, 0, 1), Cls(Digits, 0, -1), Close(3),
    Cls(Seps, 0, -1),
    Opt(<<Open(4)>> \o SignedDecimal \o <<Close(4)>>),
    Cls(Seps, 0, -1),
    Opt(<<Open(5)>> \o SignedDecimal \o <<Lit(<<"%">>), Close(5)>>)>>

\* the index names, in the order of the alternation
IndexNames ==
  << <<"Shang", "Zheng", "Zhi", "Shu">>,     \* 上证指数
     <<"Shen", "Zheng", "Cheng", "Zhi">>,    \* 深证成指
     <<"Chuang", "Ye", "Ban", "Zhi">>,       \* 创业板指
     <<"Hu", "Shen", "3", "0", "0">>,        \* 沪深300
     <<"Zhong", "Zheng", "5", "0", "0">>,    \* 中证500
     <<"Shang", "Zheng", "5", "0">>,         \* 上证50
     <<"Ke", "Chuang", "5", "0">>,           \* 科创50
     <<"Bei", "Zheng", "5", "0">> >>         \* 北证50

Lits(names) == [i \in 1..Len(names) |-> <<Lit(names[i])>>]

\* (上证指数|...|北证50)[:\s]+(\d+\.?\d*)[\s(]*([+-]?\d+\.?\d*%)?
indexPattern ==
  <<Open(1), Alt(Lits(IndexNames)), Close(1), Cls({":", " "}, 1, -1),
    Open(2), Cls(Digits, 1, -1), Cls({"."}, 0, 1), Cls(Digits, 0, -1), Close(2),
    Cls({" ", "("}, 0, -1),
    Opt(<<Open(3)>> \o SignedDecimal \o <<Lit(<<"%">>), Close(3)>>)>>

\* ([一-龥A-Za-z0-9]+)[:\s]+([+-]?\d+\.?\d*%)
gainerPattern ==
  <<Open(1), Cls(NameChars, 1, -1), Close(1), Cls({":", " "}, 1, -1),
    Open(2)>> \o SignedDecimal \o <<Lit(<<"%">>), Close(2)>>

\* (?:市场|行情|今日|今日市场|大盘)[^。]{20,150}。 and
\* (?:上涨|下跌|涨幅|跌幅)[^。]{10,100}。
overviewPatterns ==
  << <<Alt(Lits(<< <<"Shi", "Chang">>, <<"Hang", "Qing">>, <<"Jin", "Ri">>,
                   <<"Jin", "Ri", "Shi", "Chang">>, <<"Da", "Pan">> >>)),
       NotCls({"Stop"}, 20, 150), Lit(<<"Stop">>)>>,
     <<Alt(Lits(<< <<"Shang", "Zhang">>, <<"Xia", "Die">>, <<"Zhang", "Fu">>,
                   <<"Die", "Fu">> >>)),
       NotCls({"Stop"}, 10, 100), Lit(<<"Stop">>)>> >>

\* v || 'N/A' for a piece of matched text
TextOrNA(cs) == IF cs = <<>> THEN JStr(NA) ELSE JStr(cs)

\* match[g] || 'N/A'
GroupOrNA(text, m, g) == TextOrNA(Group(text, m, g))

\* the same stock with the change left unknown
StockOfMatch_NoChange(text, m) ==
  JObj([symbol |-> JStr(Group(text, m, 1)),
        name |-> GroupOrNA(text, m, 2),
        price |-> GroupOrNA(text, m, 3),
        change |-> JStr(NA),
        change_percent |-> GroupOrNA(text, m, 5),
        volume |-> JStr(NA)])

\* the stock built from one match of stockPattern
StockOfMatch(text, m) ==
  JObj([symbol |-> JStr(Group(text, m, 1)),
        name |-> GroupOrNA(text, m, 2),
        price |-> GroupOrNA(text, m, 3),
        change |-> GroupOrNA(text, m, 4),
        change_percent |-> GroupOrNA(text, m, 5),
        volume |-> JStr(NA)])

\* the same index without the percentage, as the scan of a link text builds it
IndexOfMatch_NoPercent(text, m) ==
  JObj([name |-> JStr(Group(text, m, 1)),
        value |-> GroupOrNA(text, m, 2),
        change |-> JStr(NA),
        change_percent |-> JStr(NA)])

\* the index built from one match of indexPattern
IndexOfMatch(text, m) ==
  JObj([name |-> JStr(Group(text, m, 1)),
        value |-> GroupOrNA(text, m, 2),
        change |-> JStr(NA),
        change_percent |-> GroupOrNA(text, m, 3)])

\* match[1] + ' ' + match[2]
MentionOfMatch(text, m) ==
  JStr(Group(text, m, 1) \o <<" ">> \o Group(text, m, 2))

\* the percentage of a mention is above zero (up) or below zero (~up)
Moves_ZeroIsGainer(pf, up) == pf.t = "number" /\ (IF up THEN pf.num >= 0 ELSE pf.num < 0)

Moves(pf, up) == pf.t = "number" /\ (IF up THEN pf.num > 0 ELSE pf.num < 0)

\* stockMatches.forEach(...): one stock per match
StocksOfMatches(text, ms) == [i \in 1..Len(ms) |-> StockOfMatch(text, ms[i])]

\* "Must have code and price"
StocksOfText(text) ==
  StocksOfMatches(text,
                  SelectSeq(MatchAll(stockPattern, 5, text),
                            LAMBDA m : Group(text, m, 1) # <<>> /\ Group(text, m, 3) # <<>>))

\* indexMatches.forEach(...): one index per match
IndicesOfMatches(text, ms) == [i \in 1..Len(ms) |-> IndexOfMatch(text, ms[i])]

IndicesOfText(text) == IndicesOfMatches(text, MatchAll(indexPattern, 3, text))

MentionsOfMatches(text, ms) == [i \in 1..Len(ms) |-> MentionOfMatch(text, ms[i])]

\* the gainers (up) or the losers (~up) among the matches of gainerPattern
MentionsOf(text, ms, up) ==
  MentionsOfMatches(text,
                    SelectSeq(ms, LAMBDA m : Moves(ParseFloatStr(Group(text, m, 2)), up)))

\* the first pattern of overviewPatterns with a match gives matches[0]
RECURSIVE OverviewFrom(_, _)
OverviewFrom(text, i) ==
  IF i > Len(overviewPatterns) THEN <<>>
  ELSE IF Test(overviewPatterns[i], text)
  THEN Whole(text, Exec(overviewPatterns[i], 0, text, 1))
  ELSE OverviewFrom(text, i + 1)

\* "Only return if we extracted something useful"
\* the same return without the test for something useful
Useful_Always(stocks, indices, overview, gainers, losers) ==
  JObj([stocks |-> JArr(stocks),
        indices |-> JArr(indices),
        marketOverview |-> JStr(overview),
        topGainers |-> JArr(gainers),
        topLosers |-> JArr(losers)])

\* "Only return if we extracted something useful"
Useful(stocks, indices, overview, gainers, losers) ==
  IF stocks # <<>> \/ indices # <<>> \/ overview # <<>>
     \/ gainers # <<>> \/ losers # <<>>
  THEN JObj([stocks |-> JArr(stocks),
             indices |-> JArr(indices),
             marketOverview |-> JStr(overview),
             topGainers |-> JArr(gainers),
             topLosers |-> JArr(losers)])
  ELSE Null

GainersAndLosers(text, stocks, indices, overview, gm) ==
  Useful(stocks, indices, overview, MentionsOf(text, gm, TRUE), MentionsOf(text, gm, FALSE))

transformRawData(rawText) ==
  IF ~Truthy(rawText) \/ rawText.t # "string" THEN Null
  ELSE GainersAndLosers(rawText.s, StocksOfText(rawText.s), IndicesOfText(rawText.s),
                        OverviewFrom(rawText.s, 1), MatchAll(gainerPattern, 2, rawText.s))

-----------------------------------------------------------------------------
(* JSON.parse, for the JSON texts the model holds: objects, arrays, strings *)
(* without escapes, decimal numbers, true, false, null, blanks between      *)
(* tokens.  Anything else is a SyntaxError.                                 *)

JsonFail == [ok |-> FALSE]

RECURSIVE SkipBlanks(_, _)
SkipBlanks(s, pos) ==
  IF pos <= Len(s) /\ s[pos] \in Spaces THEN SkipBlanks(s, pos + 1) ELSE pos

\* the property name a character sequence spells
RECURSIVE NameOf(_)
NameOf(cs) == IF cs = <<>> THEN "" ELSE Head(cs) \o NameOf(Tail(cs))

\* -?\d+(\.\d+)?
JsonNumber ==
  <<Open(1), Cls({"-"}, 0, 1), Close(1), Open(2), Cls(Digits, 1, -1), Close(2),
    Opt(<<Lit(<<".">>), Open(3), Cls(Digits, 1, -1), Close(3)>>)>>

\* "[^"\\]*"
JsonString == <<Lit(<<"\"">>), Open(1), NotCls({"\"", "\\"}, 0, -1), Close(1), Lit(<<"\"">>)>>

RECURSIVE ParseValue(_, _)
RECURSIVE ParseMembers(_, _, _)
RECURSIVE ParseElements(_, _, _)

Parsed(v, pos) == [ok |-> TRUE, v |-> v, pos |-> pos]

\* the string literal matched by m
StringAt(s, m) == IF m.ok THEN Parsed(JStr(Group(s, m, 1)), m.end) ELSE JsonFail

\* the number literal matched by m; a leading zero is no JSON number
NumberAt(s, m) ==
  IF ~m.ok THEN JsonFail
  ELSE IF m.caps[2][2] - m.caps[2][1] > 1 /\ s[m.caps[2][1]] = "0" THEN JsonFail
  ELSE Parsed(Decimal(Group(s, m, 1) = <<"-">>, Group(s, m, 2), Group(s, m, 3)), m.end)

\* one JSON value at pos, pos being past the blanks: [ok, v, pos]
ValueAt(s, pos) ==
  IF pos > Len(s) THEN JsonFail
  ELSE
    CASE s[pos] = "{" ->
           IF HasLit(s, SkipBlanks(s, pos + 1), <<"}">>)
           THEN Parsed(EmptyObj, SkipBlanks(s, pos + 1) + 1)
           ELSE ParseMembers(s, SkipBlanks(s, pos + 1), EmptyObj)
      [] s[pos] = "[" ->
           IF HasLit(s, SkipBlanks(s, pos + 1), <<"]">>)
           THEN Parsed(JArr(<<>>), SkipBlanks(s, pos + 1) + 1)
           ELSE ParseElements(s, pos + 1, <<>>)
      [] s[pos] = "\"" -> StringAt(s, MatchAt(JsonString, s, pos, NoCaps(1)))
      [] s[pos] \in Digits \cup {"-"} ->
           NumberAt(s, MatchAt(JsonNumber, s, pos, NoCaps(3)))
      [] HasLit(s, pos, <<"n", "u", "l", "l">>) -> Parsed(Null, pos + 4)
      [] HasLit(s, pos, <<"t", "r", "u", "e">>) -> Parsed(JBool(TRUE), pos + 4)
      [] HasLit(s, pos, <<"f", "a", "l", "s", "e">>) -> Parsed(JBool(FALSE), pos + 5)
      [] OTHER -> JsonFail

ParseValue(s, pos) == ValueAt(s, SkipBlanks(s, pos))

\* after a member: } ends the object, a comma brings the next member
AfterMember(s, q, obj) ==
  IF q > Len(s) THEN JsonFail
  ELSE IF s[q] = "}" THEN Parsed(obj, q + 1)
  ELSE IF s[q] = "," THEN ParseMembers(s, SkipBlanks(s, q + 1), obj)
  ELSE JsonFail

MemberValue(s, name, r, acc) ==
  IF ~r.ok THEN JsonFail
  ELSE AfterMember(s, SkipBlanks(s, r.pos), Put(acc, NameOf(name), r.v))

MemberName(s, k, c, acc) ==
  IF c > Len(s) \/ s[c] # ":" THEN JsonFail
  ELSE MemberValue(s, Group(s, k, 1), ParseValue(s, c + 1), acc)

MemberAt(s, k, acc) ==
  IF ~k.ok THEN JsonFail ELSE MemberName(s, k, SkipBlanks(s, k.end), acc)

\* "name": value, ... } from pos on, added to the object acc
ParseMembers(s, pos, acc) ==
  IF HasLit(s, pos, <<"\"">>)
  THEN MemberAt(s, MatchAt(JsonString, s, pos, NoCaps(1)), acc)
  ELSE JsonFail

\* after an element: ] ends the array, a comma brings the next element
AfterElement(s, q, acc) ==
  IF q > Len(s) THEN JsonFail
  ELSE IF s[q] = "]" THEN Parsed(JArr(acc), q + 1)
  ELSE IF s[q] = "," THEN ParseElements(s, q + 1, acc)
  ELSE JsonFail

ElementAt(s, r, acc) ==
  IF ~r.ok THEN JsonFail ELSE AfterElement(s, SkipBlanks(s, r.pos), Append(acc, r.v))

\* value, ... ] from pos on, appended to acc
ParseElements(s, pos, acc) == ElementAt(s, ParseValue(s, pos), acc)

\* the whole text must be one value
WholeText(s, r) ==
  IF r.ok /\ SkipBlanks(s, r.pos) = Len(s) + 1 THEN [ok |-> TRUE, v |-> r.v]
  ELSE JsonFail

\* JSON.parse(s): [ok, v]; ok = FALSE is the SyntaxError
JSONParse(s) == WholeText(s, ParseValue(s, 1))

-----------------------------------------------------------------------------
(* Followed-links extraction of the detail modal.                           *)

\* \b([0-3][0-9]{5}|6[0-9]{5})\b
codePattern ==
  <<WordBoundary, Open(1),
    Alt(<< <<Cls({"0", "1", "2", "3"}, 1, 1), Cls(Digits, 5, 5)>>,
           <<Cls({"6"}, 1, 1), Cls(Digits, 5, 5)>> >>),
    Close(1), WordBoundary>>

\* ^\d+\.\d+$
priceCell == <<Bol, Cls(Digits, 1, -1), Lit(<<".">>), Cls(Digits, 1, -1), Eol>>
\* ^[+-]?\d+\.?\d*$
changeCell == <<Bol>> \o SignedDecimal \o <<Eol>>
\* [+-]?\d+\.?\d*%
percentCell == SignedDecimal \o <<Lit(<<"%">>)>>
\* ^\d+[万千]?$
volumeCell == <<Bol, Cls(Digits, 1, -1), Cls({"Wan", "Qian"}, 0, 1), Eol>>

\* (上证指数|深证成指|创业板指|沪深300|中证500|上证50)[:\s]+(\d+\.?\d*)
linkIndexPattern ==
  <<Open(1), Alt(Lits(SubSeq(IndexNames, 1, 6))), Close(1), Cls({":", " "}, 1, -1),
    Open(2), Cls(Digits, 1, -1), Cls({"."}, 0, 1), Cls(Digits, 0, -1), Close(2)>>

\* row.find(c => pattern.test(c)): the first cell whose text matches
RECURSIVE FindCell(_, _, _)
FindCell(row, i, pattern) ==
  IF i > Len(row) THEN Undef
  ELSE IF Test(pattern, ToStr(row[i])) THEN row[i]
  ELSE FindCell(row, i + 1, pattern)

\* row[i], 0-based
Cell(cells, i) == IF i + 1 <= Len(cells) THEN cells[i + 1] ELSE Undef

\* the stock of a row whose text rowStr has the code match m
RowStock(cells, rowStr, m) ==
  IF ~m.ok THEN <<>>
  ELSE << JObj([symbol |-> JStr(Group(rowStr, m, 1)),
                name |-> Or(Cell(cells, 1), Or(Cell(cells, 0), JStr(NA))),
                price |-> Or(Cell(cells, 2), Or(FindCell(cells, 1, priceCell), JStr(NA))),
                change |-> Or(FindCell(cells, 1, changeCell), JStr(NA)),
                change_percent |-> Or(FindCell(cells, 1, percentCell), JStr(NA)),
                volume |-> Or(FindCell(cells, 1, volumeCell), JStr(NA))]) >>

CodeOf(cells, rowStr) == RowStock(cells, rowStr, Exec(codePattern, 1, rowStr, 1))

\* the stock of one table row (the cells of an array row), if it has a code
RowStocks(cells) == CodeOf(cells, JoinWith(cells, <<" ">>))

\* the same walk with row 0 taken as a row of data
RECURSIVE RowsFrom_HeaderToo(_, _, _)
RowsFrom_HeaderToo(rows, i, acc) ==
  IF i > Len(rows) THEN [threw |-> FALSE, stocks |-> acc]
  ELSE IF GetThrows(rows[i]) THEN Raised
  ELSE IF ~NumGe(LengthOf(rows[i]), 2) THEN RowsFrom_HeaderToo(rows, i + 1, acc)
  ELSE IF rows[i].t # "array" THEN Raised
  ELSE RowsFrom_HeaderToo(rows, i + 1, acc \o RowStocks(rows[i].a))

\* table.forEach((row, idx) => ...) from row i on: [threw, stocks]
RECURSIVE RowsFrom(_, _, _)
RowsFrom(rows, i, acc) ==
  IF i > Len(rows) THEN [threw |-> FALSE, stocks |-> acc]
  ELSE IF i = 1 THEN RowsFrom(rows, i + 1, acc)                    \* idx > 0
  ELSE IF GetThrows(rows[i]) THEN Raised                           \* row.length
  ELSE IF ~NumGe(LengthOf(rows[i]), 2) THEN RowsFrom(rows, i + 1, acc)
  ELSE IF rows[i].t # "array" THEN Raised                          \* row.join
  ELSE RowsFrom(rows, i + 1, acc \o RowStocks(rows[i].a))

\* linkData.tables.forEach(table => ...) from table i on: [threw, stocks]
RECURSIVE TablesFrom(_, _, _)
RECURSIVE TablesNext(_, _, _)
TablesFrom(tables, i, acc) ==
  IF i > Len(tables) THEN [threw |-> FALSE, stocks |-> acc]
  ELSE IF tables[i].t # "array" THEN Raised                        \* table.forEach
  ELSE TablesNext(tables, i, RowsFrom(tables[i].a, 1, acc))

TablesNext(tables, i, r) ==
  IF r.threw THEN Raised ELSE TablesFrom(tables, i + 1, r.stocks)

\* the index built from one match of the link-text pattern
LinkIndexOfMatch(text, m) ==
  JObj([name |-> JStr(Group(text, m, 1)),
        value |-> GroupOrNA(text, m, 2),
        change |-> JStr(NA),
        change_percent |-> JStr(NA)])

\* for (const match of indexMatches): one index per match
LinkIndicesOfMatches(text, ms) == [i \in 1..Len(ms) |-> LinkIndexOfMatch(text, ms[i])]

\* the index mentions of a link text
LinkIndices(text) == LinkIndicesOfMatches(text, MatchAll(linkIndexPattern, 2, text))

\* the table part of one entry: [threw, stocks]
LinkTables(tables, stocks) ==
  IF Truthy(tables) /\ NumGt(LengthOf(tables), 0)
  THEN (IF tables.t # "array" THEN Raised ELSE TablesFrom(tables.a, 1, stocks))
  ELSE [threw |-> FALSE, stocks |-> stocks]

\* siteData.followed_links_data.forEach(linkData => ...) from entry i on:
\* [threw, stocks, indices]
RECURSIVE LinksFrom(_, _, _, _)
RECURSIVE LinkText(_, _, _, _, _)
LinksFrom(links, i, stocks, indices) ==
  IF i > Len(links) THEN [threw |-> FALSE, stocks |-> stocks, indices |-> indices]
  ELSE IF GetThrows(links[i]) THEN Raised                          \* linkData.tables
  ELSE LinkText(links, i, LinkTables(Get(links[i], "tables"), stocks),
                Get(links[i], "text"), indices)

\* the text part of entry i, after its tables gave ts
LinkText(links, i, ts, text, indices) ==
  IF ts.threw THEN Raised
  ELSE IF ~Truthy(text) THEN LinksFrom(links, i + 1, ts.stocks, indices)
  ELSE IF text.t # "string" THEN Raised                            \* text.matchAll
  ELSE LinksFrom(links, i + 1, ts.stocks, indices \o LinkIndices(text.s))

LinksOf(fld) ==
  IF ~(Truthy(fld) /\ NumGt(LengthOf(fld), 0))
  THEN [threw |-> FALSE, stocks |-> <<>>, indices |-> <<>>]
  ELSE IF fld.t # "array" THEN Raised                              \* fld.forEach
  ELSE LinksFrom(fld.a, 1, <<>>, <<>>)

\* allTableStocks and allIndices of a site: [threw, stocks, indices]
FollowedLinks(siteData) == LinksOf(Get(siteData, "followed_links_data"))

-----------------------------------------------------------------------------
(* Per-site canonicalisation of the detail modal (the body of                *)
(* sortedSites.map).  A step works on a context                              *)
(*   pd      processedData                                                   *)
(*   own     pd is still the very object siteData.ai_processed_data          *)
(*   tr      transformedData                                                 *)
(*   raw     isRawResponse                                                   *)
(*   sd      siteData as the snapshot holds it after the step                *)

webScrapedSites == {"tonghuashun", "dongfangcaifu", "xueqiu", "tongdaxin", "caijinglian"}

NoList == JArr(<<>>)

\* what a site shows without a data section: nothing, the "empty" panel or
\* the error panel
Plain(display, hadError, sd) ==
  [threw |-> FALSE, display |-> display, stocks |-> NoList, indices |-> NoList,
   topGainers |-> NoList, topLosers |-> NoList, marketOverview |-> JStr(NA),
   tradingSummary |-> JStr(<<>>), hadError |-> hadError, usedFallback |-> FALSE,
   isRawResponse |-> FALSE, sd |-> sd]

\* the exception leaves the map callback; sd is the snapshot's site datum then
Abort(sd) == [threw |-> TRUE, sd |-> sd]

Ctx(pd, own, tr, raw, sd) ==
  [threw |-> FALSE, pd |-> pd, own |-> own, tr |-> tr, raw |-> raw, sd |-> sd]

\* transformedData of the raw_data_preview fallback: tried when there is no
\* ai_processed_data, or an object without keys, and a preview
PreviewTransform(pd, rawPreview) ==
  IF (~Truthy(pd) \/ (IsObjectType(pd) /\ KeyCount(pd) = 0)) /\ Truthy(rawPreview)
  THEN transformRawData(rawPreview) ELSE Null

AfterPreview(sd, pd, tr) == Ctx(IF Truthy(tr) THEN tr ELSE pd, ~Truthy(tr), tr, FALSE, sd)

PreviewStep(sd) ==
  AfterPreview(sd, Get(sd, "ai_processed_data"),
               PreviewTransform(Get(sd, "ai_processed_data"),
                                Or(Get(sd, "raw_data_preview"), JStr(<<>>))))

\* processedData.<field> = value; the snapshot's own object is written when
\* processedData still is that object
Assign(c, field, value) ==
  [c EXCEPT !.pd = Put(c.pd, field, value),
            !.sd = IF c.own THEN Put(c.sd, "ai_processed_data", Put(c.pd, field, value))
                   ELSE c.sd]

Extended(c, field, old, extra) ==
  IF ~old.ok THEN Abort(c.sd) ELSE Assign(c, field, JArr(old.a \o extra))

\* processedData.<field> = [...(processedData.<field> || []), ...extra]
Extend(c, field, extra) ==
  IF c.threw \/ extra = <<>> THEN c
  ELSE IF GetThrows(c.pd) THEN Abort(c.sd)
  ELSE Extended(c, field, Spread(Or(Get(c.pd, field), NoList)), extra)

\* if (!processedData || typeof processedData !== 'object') processedData = {}
FreshIfNoObject(c) ==
  IF ~Truthy(c.pd) \/ ~IsObjectType(c.pd)
  THEN [c EXCEPT !.pd = EmptyObj, !.own = FALSE] ELSE c

Merged(c, fl) ==
  IF fl.threw THEN Abort(c.sd)
  ELSE IF fl.stocks = <<>> /\ fl.indices = <<>> THEN c
  ELSE Extend(Extend(FreshIfNoObject(c), "stocks", fl.stocks), "indices", fl.indices)

\* the followed-links stocks and indices are merged into processedData
MergeLinks(c) == Merged(c, FollowedLinks(c.sd))

\* ...(processedData.<field> ? { <field>: [...transformedData.<field>, ...processedData.<field>] } : {})
WithField(c, tr, merged, field) ==
  IF merged.threw \/ ~Truthy(Get(c.pd, field)) THEN merged
  ELSE IF ~Spread(Get(c.pd, field)).ok THEN Raised
  ELSE [threw |-> FALSE,
        v |-> Put(merged.v, field, JArr(Get(tr, field).a \o Spread(Get(c.pd, field)).a))]

WrapperMerged(c, tr, merged) ==
  IF merged.threw THEN Abort(c.sd)
  ELSE [c EXCEPT !.pd = merged.v, !.own = FALSE, !.tr = tr, !.raw = FALSE]

\* {...transformedData, stocks: [...], indices: [...]}
WrapperMerge(c, tr) ==
  WrapperMerged(c, tr,
    WithField(c, tr, WithField(c, tr, [threw |-> FALSE, v |-> tr], "stocks"), "indices"))

\* the text gave tr: it replaces processedData, or nothing is left
Fallback(c, tr) ==
  IF Truthy(tr) THEN [c EXCEPT !.pd = tr, !.own = FALSE, !.tr = tr, !.raw = FALSE]
  ELSE [c EXCEPT !.pd = Null, !.own = FALSE, !.tr = tr, !.raw = TRUE]

\* try { JSON.parse } catch { transformRawData }
Decoded(c, j) ==
  IF j.ok THEN [c EXCEPT !.pd = j.v, !.own = FALSE]
  ELSE Fallback(c, transformRawData(c.pd))

Unwrapped(c, tr) ==
  IF Truthy(tr) THEN WrapperMerge(c, tr)
  ELSE [c EXCEPT !.pd = Null, !.own = FALSE, !.tr = tr, !.raw = TRUE]

\* a string is decoded, a raw_response wrapper is transformed
Normalize(c) ==
  IF c.threw THEN c
  ELSE IF c.pd.t = "string" THEN Decoded(c, JSONParse(c.pd.s))
  ELSE IF Truthy(c.pd) /\ IsObjectType(c.pd) THEN
    IF GetThrows(c.pd) THEN Abort(c.sd)
    ELSE IF Get(c.pd, "raw_response").t = "undefined" THEN c
    ELSE Unwrapped(c, transformRawData(Get(c.pd, "raw_response")))
  ELSE c

IsZero(v) == v.t = "number" /\ v.num = 0

\* the fields read from processedData, and whether the section is shown
Finish(site, c) ==
  IF c.threw THEN c
  ELSE
    LET usable == Truthy(c.pd) /\ ~c.raw
        field(k, dflt) == IF usable THEN Or(Get(c.pd, k), dflt) ELSE dflt
        stocks == field("stocks", NoList)
        indices == field("indices", NoList)
        topGainers == field("top_gainers", NoList)
        topLosers == field("top_losers", NoList)
        marketOverview == field("market_overview", JStr(NA))
        tradingSummary == field("trading_summary", JStr(<<>>))
        hasError == Truthy(Get(c.sd, "error")) /\ ~Truthy(c.tr)
        nothing == /\ Truthy(c.pd)
                   /\ IsZero(LengthOf(stocks)) /\ IsZero(LengthOf(indices))
                   /\ IsZero(LengthOf(topGainers)) /\ IsZero(LengthOf(topLosers))
                   /\ marketOverview = JStr(NA) /\ ~Truthy(tradingSummary)
        hide == site \in webScrapedSites /\ (hasError \/ nothing)
    IN [threw |-> FALSE, display |-> IF hide THEN "hidden" ELSE "section",
        stocks |-> stocks, indices |-> indices, topGainers |-> topGainers,
        topLosers |-> topLosers, marketOverview |-> marketOverview,
        tradingSummary |-> tradingSummary, hadError |-> hasError,
        usedFallback |-> Truthy(c.tr), isRawResponse |-> c.raw, sd |-> c.sd]

\* the same callback with the two early returns folded into one: absent
\* data is reported as an error
CanonicalizeSite_AbsentAsError(site, siteData) ==
  IF ~Truthy(siteData) \/ Truthy(Get(siteData, "error"))
  THEN Plain(IF site \in webScrapedSites THEN "hidden" ELSE "errorPanel", TRUE, siteData)
  ELSE Finish(site, Normalize(MergeLinks(PreviewStep(siteData))))

\* the SiteExtractionResult of one site
CanonicalizeSite(site, siteData) ==
  IF ~Truthy(siteData)
  THEN Plain(IF site \in webScrapedSites THEN "hidden" ELSE "emptyPanel", FALSE, siteData)
  ELSE IF GetThrows(siteData) THEN Abort(siteData)
  ELSE IF Truthy(Get(siteData, "error"))
  THEN Plain(IF site \in webScrapedSites THEN "hidden" ELSE "errorPanel", TRUE, siteData)
  ELSE Finish(site, Normalize(MergeLinks(PreviewStep(siteData))))

-----------------------------------------------------------------------------
(* extractStockData: the stocks of a record, tagged with their site.        *)

\* the placeholder values of the symbol: 未提供公司名称, AAPL, GOOGL, stock symbol
PlaceholderSymbols ==
  {JStr(<<"Wei", "Ti", "Gong", "Gong1", "Si", "Ming", "Chen">>),
   JStr(<<"A", "A", "P", "L">>),
   JStr(<<"G", "O", "O", "G", "L">>),
   JStr(<<"s", "t", "o", "c", "k", " ", "s", "y", "m", "b", "o", "l">>)}

\* the placeholder values of the name: company name, N/A
PlaceholderNames ==
  {JStr(<<"c", "o", "m", "p", "a", "n", "y", " ", "n", "a", "m", "e">>), JStr(NA)}

\* the validation of one stock
AcceptStock(stock) ==
  /\ Truthy(Get(stock, "symbol"))
  /\ Get(stock, "symbol") \notin PlaceholderSymbols
  /\ Get(stock, "name") \notin PlaceholderNames

\* the entry pushed for an accepted stock
Tagged(stock, site) ==
  [symbol |-> Get(stock, "symbol"),
   name |-> Or(Get(stock, "name"), JStr(NA)),
   price |-> Or(Get(stock, "price"), JStr(NA)),
   change |-> Or(Get(stock, "change"), JStr(NA)),
   change_percent |-> Or(Get(stock, "change_percent"), JStr(NA)),
   volume |-> Or(Get(stock, "volume"), JStr(NA)),
   site |-> site]

\* stocksArray.forEach(stock => { try { ... } catch (stockError) { } })
RECURSIVE StocksFrom(_, _, _, _)
StocksFrom(arr, i, site, acc) ==
  IF i > Len(arr) THEN acc
  ELSE IF ~Truthy(arr[i]) \/ ~IsObjectType(arr[i]) THEN StocksFrom(arr, i + 1, site, acc)
  ELSE IF GetThrows(arr[i]) THEN StocksFrom(arr, i + 1, site, acc)   \* caught
  ELSE IF AcceptStock(arr[i])
  THEN StocksFrom(arr, i + 1, site, Append(acc, Tagged(arr[i], site)))
  ELSE StocksFrom(arr, i + 1, site, acc)

\* the stocks of a site's ai_processed_data: [threw, stocks]
ProcessedStocks(site, pd) ==
  IF ~Truthy(pd) \/ pd.t = "string" THEN [threw |-> FALSE, stocks |-> <<>>]
  ELSE IF pd.t = "array"
  THEN [threw |-> FALSE, stocks |-> StocksFrom(pd.a, 1, site, <<>>)]
  ELSE IF GetThrows(pd) THEN Raised
  ELSE IF Truthy(Get(pd, "stocks")) /\ Get(pd, "stocks").t = "array"
  THEN [threw |-> FALSE, stocks |-> StocksFrom(Get(pd, "stocks").a, 1, site, <<>>)]
  ELSE [threw |-> FALSE, stocks |-> <<>>]

\* the body of the per-site callback: [threw, stocks]
SiteStocks(site, siteData) ==
  IF ~Truthy(siteData) \/ ~IsObjectType(siteData)
  THEN [threw |-> FALSE, stocks |-> <<>>]
  ELSE IF GetThrows(siteData) THEN Raised
  ELSE ProcessedStocks(site, Get(siteData, "ai_processed_data"))

\* the same step with a stock left out when its symbol is in the list already
Caught_SkipKnown(r, acc) ==
  IF r.threw THEN acc
  ELSE acc \o SelectSeq(r.stocks, LAMBDA e : \A k \in 1..Len(acc) : acc[k].symbol # e.symbol)

\* Object.keys(record.data).forEach(site => { try { ... } catch (siteError) { } })
Caught(r, acc) == IF r.threw THEN acc ELSE acc \o r.stocks

RECURSIVE SitesFrom(_, _, _, _)
SitesFrom(keys, d, i, acc) ==
  IF i > Len(keys) THEN acc
  ELSE SitesFrom(keys, d, i + 1, Caught(SiteStocks(keys[i], d[keys[i]]), acc))

\* the same loop without the per-site catch: the first exception ends the
\* forEach and the outer catch returns what was pushed until then
RECURSIVE SitesFromNoCatch(_, _, _, _)
RECURSIVE NoCatchNext(_, _, _, _, _)
SitesFromNoCatch(keys, d, i, acc) ==
  IF i > Len(keys) THEN acc
  ELSE NoCatchNext(keys, d, i, acc, SiteStocks(keys[i], d[keys[i]]))

NoCatchNext(keys, d, i, acc, r) ==
  IF r.threw THEN acc ELSE SitesFromNoCatch(keys, d, i + 1, acc \o r.stocks)

extractStockData_NoSiteCatch(keys, d) == SitesFromNoCatch(keys, d, 1, <<>>)

\* extractStockData(record), record.data given by its keys and its values
extractStockData(keys, d) == SitesFrom(keys, d, 1, <<>>)

-----------------------------------------------------------------------------
(* prepareChartData: the three charts made of the stocks of a record.       *)

\* parseFloat(v): of String(v)
ParseFloat(v) == ParseFloatStr(ToStr(v))

Dash == <<"-">>

\* the filter of validStocks
ValidStock(stock) ==
  /\ Truthy(stock.price)
  /\ ParseFloat(stock.price).t = "number"
  /\ ParseFloat(stock.price).num > 0
  /\ stock.price # JStr(Dash) /\ stock.price # JStr(NA)

\* number of characters a chart shows of a name
NameLimit == 15

\* stock.name && stock.name.length > 15 ? stock.name.substring(0, 15) + '...' : (stock.name || 'N/A')
DisplayName(name) ==
  IF Truthy(name) /\ NumGt(LengthOf(name), NameLimit)
  THEN IF name.t = "string" THEN JStr(SubSeq(name.s, 1, NameLimit) \o <<".", ".", ".">>)
       ELSE Throwing       \* substring is no method of an array
  ELSE Or(name, JStr(NA))

PriceEntry(stock) ==
  JObj([name |-> DisplayName(stock.name), price |-> ParseFloat(stock.price),
        symbol |-> stock.symbol])

\* the first '%' of cs removed
RECURSIVE WithoutPercent(_)
WithoutPercent(cs) ==
  IF cs = <<>> THEN <<>>
  ELSE IF Head(cs) = "%" THEN Tail(cs)
  ELSE <<Head(cs)>> \o WithoutPercent(Tail(cs))

\* isNaN(changePercent) ? 0 : changePercent
ZeroIfNaN(v) == IF v.t = "number" THEN v ELSE JNum(0, 1)

ChangeEntry(stock) ==
  JObj([name |-> DisplayName(stock.name),
        change |-> ZeroIfNaN(ParseFloatStr(WithoutPercent(ToStr(stock.change_percent)))),
        symbol |-> stock.symbol])

\* the filter before changeData is mapped
HasChange(stock) ==
  /\ Truthy(stock.change_percent)
  /\ stock.change_percent # JStr(Dash) /\ stock.change_percent # JStr(NA)

\* Math.abs of a number
Abs(v) == IF v.num < 0 THEN JNum(0 - v.num, v.den) ELSE v

\* a < b for two numbers
NumLess(a, b) == a.num * b.den < b.num * a.den

\* the same key without Math.abs
SortKey_Signed(entry, byChange) ==
  IF byChange THEN Get(entry, "change") ELSE Get(entry, "price")

\* what an entry is sorted by: its price, or the magnitude of its change
SortKey(entry, byChange) ==
  IF byChange THEN Abs(Get(entry, "change")) ELSE Get(entry, "price")

\* the same insertion in front of the entries that equal it
RECURSIVE InsertDescending_BeforeEqual(_, _, _)
InsertDescending_BeforeEqual(sorted, entry, byChange) ==
  IF sorted = <<>> THEN <<entry>>
  ELSE IF ~NumLess(SortKey(entry, byChange), SortKey(Head(sorted), byChange))
  THEN <<entry>> \o sorted
  ELSE <<Head(sorted)>> \o InsertDescending_BeforeEqual(Tail(sorted), entry, byChange)

\* entry put into sorted (descending) behind every entry that is not below it
RECURSIVE InsertDescending(_, _, _)
InsertDescending(sorted, entry, byChange) ==
  IF sorted = <<>> THEN <<entry>>
  ELSE IF NumLess(SortKey(Head(sorted), byChange), SortKey(entry, byChange))
  THEN <<entry>> \o sorted
  ELSE <<Head(sorted)>> \o InsertDescending(Tail(sorted), entry, byChange)

\* entries.sort((a, b) => key(b) - key(a)): descending, stable
RECURSIVE SortDescending(_, _, _, _)
SortDescending(entries, i, sorted, byChange) ==
  IF i > Len(entries) THEN sorted
  ELSE SortDescending(entries, i + 1, InsertDescending(sorted, entries[i], byChange), byChange)

\* number of entries of a chart
ChartLimit == 20

\* .slice(0, 20)
Slice(entries) == SubSeq(entries, 1, IF Len(entries) < ChartLimit THEN Len(entries) ELSE ChartLimit)

PriceEntries(valid) == [i \in 1..Len(valid) |-> PriceEntry(valid[i])]

priceData(valid) ==
  Slice(SortDescending(SelectSeq(PriceEntries(valid), LAMBDA e : Get(e, "price").t = "number"),
                       1, <<>>, FALSE))

ChangeEntries(valid) == [i \in 1..Len(valid) |-> ChangeEntry(valid[i])]

changeData(valid) ==
  Slice(SortDescending(ChangeEntries(SelectSeq(valid, HasChange)), 1, <<>>, TRUE))

\* name.includes(part)
Includes(cs, part) == \E pos \in 1..Len(cs) : HasLit(cs, pos, part)

\* the bucket of an index name: 上证, 深证, 创业板, 北证, 港股 (香港, 恒生),
\* 台股 (台湾), 其他
MarketType(cs) ==
  IF Includes(cs, <<"Shang", "Zheng">>) THEN "ShangZheng"
  ELSE IF Includes(cs, <<"Shen", "Zheng">>) THEN "ShenZheng"
  ELSE IF Includes(cs, <<"Chuang", "Ye", "Ban">>) THEN "ChuangYeBan"
  ELSE IF Includes(cs, <<"Bei", "Zheng">>) THEN "BeiZheng"
  ELSE IF Includes(cs, <<"Xiang", "Gang">>) \/ Includes(cs, <<"Heng", "Sheng">>) THEN "GangGu"
  ELSE IF Includes(cs, <<"Tai", "Wan">>) THEN "TaiGu"
  ELSE "QiTa"

\* marketTypes[type] = (marketTypes[type] || 0) + 1, the keys in the order
\* they were first written
CountType(types, type) ==
  IF \E i \in 1..Len(types) : types[i].name = type
  THEN [i \in 1..Len(types) |->
          IF types[i].name = type THEN [types[i] EXCEPT !.value = @ + 1] ELSE types[i]]
  ELSE Append(types, [name |-> type, value |-> 1])

\* stock.name.includes('指数') on a name that is truthy
IsIndexName(name) == name.t = "string" /\ Includes(name.s, <<"Zhi", "Shu">>)

\* validStocks.forEach(...): the counts per bucket
RECURSIVE marketTypes(_, _, _)
marketTypes(valid, i, types) ==
  IF i > Len(valid) THEN types
  ELSE marketTypes(valid, i + 1,
                   IF IsIndexName(valid[i].name)
                   THEN CountType(types, MarketType(valid[i].name.s)) ELSE types)

pieData(types) ==
  [i \in 1..Len(types) |-> JObj([name |-> JStr(<<types[i].name>>), value |-> JNum(types[i].value, 1)])]

\* a name on which substring or includes raises: the catch returns null
NameThrows(name) ==
  /\ Truthy(name)
  /\ \/ name.t \notin {"string", "array"}
     \/ name.t = "array" /\ Len(name.a) > NameLimit

ChartsOf(valid) ==
  IF \E i \in 1..Len(valid) : NameThrows(valid[i].name) THEN Null
  ELSE JObj([priceData |-> JArr(priceData(valid)),
             changeData |-> JArr(changeData(valid)),
             pieData |-> JArr(pieData(marketTypes(valid, 1, <<>>))),
             totalStocks |-> JNum(Len(valid), 1)])

\* the charts of the stocks of the record, null without stocks
ChartsOfStocks(stocks) ==
  IF stocks = <<>> THEN Null ELSE ChartsOf(SelectSeq(stocks, ValidStock))

\* prepareChartData(), latestRecord.data given by its keys and its values
prepareChartData(keys, d) == ChartsOfStocks(extractStockData(keys, d))

-----------------------------------------------------------------------------
(* The snapshots of the model: what the crawler can have stored for a site. *)

Code600000 == <<"6", "0", "0", "0", "0", "0">>
Code600519 == <<"6", "0", "0", "5", "1", "9">>
PuFaBank == <<"Pu", "Fa", "Yin", "Hang">>          \* 浦发银行
MaoTai == <<"Gui", "Zhou", "Mao", "Tai">>          \* 贵州茅台

\* 600519:贵州茅台:1688.00:+12.50:+0.75%
RawStockText ==
  Code600519 \o <<":">> \o MaoTai
  \o <<":", "1", "6", "8", "8", ".", "0", "0", ":", "+", "1", "2", ".", "5", "0",
       ":", "+", "0", ".", "7", "5", "%">>

\* 上证指数: 3123.45 (+0.45%)
RawIndexText ==
  <<"Shang", "Zheng", "Zhi", "Shu", ":", " ", "3", "1", "2", "3", ".", "4", "5",
    " ", "(", "+", "0", ".", "4", "5", "%", ")">>

\* 上涨家数多于下跌家数成交放大。
OverviewSentence ==
  <<"Shang", "Zhang", "Jia", "Shu", "Duo", "Yu", "Xia", "Die", "Jia", "Shu",
    "Cheng", "Jiao", "Fang", "Da", "Stop">>

\* 贵州茅台: +5.2% 浦发银行: -3.1% 上涨家数多于下跌家数成交放大。
RawMoversText ==
  MaoTai \o <<":", " ", "+", "5", ".", "2", "%", " ">>
  \o PuFaBank \o <<":", " ", "-", "3", ".", "1", "%", " ">> \o OverviewSentence

\* a text no pattern matches
RawNoise == <<"n", "o", " ", "d", "a", "t", "a">>

StockPuFa ==
  JObj([symbol |-> JStr(Code600000), name |-> JStr(PuFaBank),
        price |-> JStr(<<"1", "0", ".", "5", "0">>),
        change_percent |-> JStr(<<"+", "0", ".", "9", "6", "%">>)])

\* the sample ticker of the prompt's example output
StockAAPL ==
  JObj([symbol |-> JStr(<<"A", "A", "P", "L">>), name |-> JStr(<<"A", "p", "p", "l", "e">>),
        price |-> JStr(<<"1", "5", "0", ".", "0", "0">>)])

\* a stock the crawler stored without a name
StockNoName ==
  JObj([symbol |-> JStr(Code600519), price |-> JStr(<<"1", "6", "8", "8", ".", "0", "0">>)])

IndexSZ ==
  JObj([name |-> JStr(<<"Shen", "Zheng", "Cheng", "Zhi">>),
        value |-> JStr(<<"9", "8", "7", "6", ".", "5">>)])

GainerText == JStr(Code600519 \o <<" ", "+", "5", ".", "2", "%">>)
LoserText == JStr(Code600000 \o <<" ", "-", "3", ".", "1", "%">>)
OverviewText == JStr(<<"Da", "Pan", "Shang", "Zhang">>)
SummaryText == JStr(<<"Cheng", "Jia", "Fu", "Da">>)

\* a structured ai_processed_data
Structured ==
  JObj([stocks |-> JArr(<<StockPuFa, StockAAPL>>), indices |-> JArr(<<IndexSZ>>),
        top_gainers |-> JArr(<<GainerText>>), top_losers |-> JArr(<<LoserText>>),
        market_overview |-> OverviewText, trading_summary |-> SummaryText])

Quoted(cs) == <<"\"">> \o cs \o <<"\"">>

\* {"stocks":[{"symbol":"600000","name":"浦发银行","price":"10.50"}],"indices":[]}
EncodedText ==
  <<"{">> \o Quoted(<<"s", "t", "o", "c", "k", "s">>) \o <<":", "[", "{">>
  \o Quoted(<<"s", "y", "m", "b", "o", "l">>) \o <<":">> \o Quoted(Code600000) \o <<",">>
  \o Quoted(<<"n", "a", "m", "e">>) \o <<":">> \o Quoted(PuFaBank) \o <<",">>
  \o Quoted(<<"p", "r", "i", "c", "e">>) \o <<":">>
  \o Quoted(<<"1", "0", ".", "5", "0">>) \o <<"}", "]", ",">>
  \o Quoted(<<"i", "n", "d", "i", "c", "e", "s">>) \o <<":", "[", "]", "}">>

\* a raw-response wrapper around text, with structured fields beside it
Wrapper(text) ==
  JObj([raw_response |-> JStr(text), stocks |-> JArr(<<StockPuFa>>),
        indices |-> JArr(<<IndexSZ>>), top_gainers |-> JArr(<<GainerText>>),
        top_losers |-> JArr(<<LoserText>>), market_overview |-> OverviewText,
        trading_summary |-> SummaryText])

\* a followed link: header 代码 名称 价格, one row 600000 浦发银行 10.50, and a
\* text naming 上证50: 2500.1
HeaderRow ==
  JArr(<<JStr(<<"Dai", "Ma">>), JStr(<<"Ming", "Chen">>), JStr(<<"Jia", "Ge">>)>>)
DataRow ==
  JArr(<<JStr(Code600000), JStr(PuFaBank), JStr(<<"1", "0", ".", "5", "0">>)>>)
\* a row whose name cell is the placeholder N/A
PlaceholderRow ==
  JArr(<<JStr(Code600519), JStr(NA), JStr(<<"1", "6", "8", "8", ".", "0", "0">>)>>)
IndexLinkText ==
  JStr(<<"Shang", "Zheng", "5", "0", ":", " ", "2", "5", "0", "0", ".", "1">>)

Link(rows, text) == JObj([tables |-> JArr(<<JArr(rows)>>), text |-> text])

LinksGood == JArr(<<Link(<<HeaderRow, DataRow>>, IndexLinkText)>>)
LinksPlaceholder == JArr(<<Link(<<HeaderRow, PlaceholderRow>>, JStr(<<>>))>>)
LinksTextOnly == JArr(<<JObj([text |-> IndexLinkText])>>)
\* malformed entries: a null entry, a table that is a string, a row that is a
\* string, a text that is a number
LinksNullEntry == JArr(<<Null>>)
LinksBadTable == JArr(<<JObj([tables |-> JArr(<<JStr(Code600000)>>)])>>)
LinksBadRow == JArr(<<JObj([tables |-> JArr(<<JArr(<<HeaderRow, JStr(Code600000)>>)>>)])>>)
LinksBadText == JArr(<<JObj([text |-> JNum(42, 1)])>>)

ErrorText == JStr(<<"t", "i", "m", "e", "o", "u", "t">>)

\* the site data of the model
SiteData ==
  { Null,
    JObj([error |-> ErrorText]),
    JObj([error |-> ErrorText, raw_data_preview |-> JStr(RawStockText)]),
    JObj([error |-> ErrorText, followed_links_data |-> LinksGood]),
    JObj([ai_processed_data |-> Structured]),
    JObj([ai_processed_data |-> Structured, followed_links_data |-> LinksGood]),
    JObj([ai_processed_data |-> Structured, followed_links_data |-> LinksTextOnly]),
    JObj([ai_processed_data |-> Structured, followed_links_data |-> LinksNullEntry]),
    JObj([ai_processed_data |-> Structured, followed_links_data |-> LinksBadTable]),
    JObj([ai_processed_data |-> Structured, followed_links_data |-> LinksBadRow]),
    JObj([ai_processed_data |-> Structured, followed_links_data |-> LinksBadText]),
    JObj([ai_processed_data |-> JArr(<<StockPuFa>>)]),
    JObj([ai_processed_data |-> JArr(<<StockNoName>>)]),
    JObj([ai_processed_data |-> EmptyObj]),
    JObj([ai_processed_data |-> EmptyObj, raw_data_preview |-> JStr(RawIndexText)]),
    JObj([ai_processed_data |-> EmptyObj, followed_links_data |-> LinksPlaceholder]),
    JObj([followed_links_data |-> LinksGood]),
    JObj([ai_processed_data |-> JStr(EncodedText)]),
    JObj([ai_processed_data |-> JStr(EncodedText), followed_links_data |-> LinksGood]),
    JObj([ai_processed_data |-> JStr(RawStockText)]),
    JObj([ai_processed_data |-> JStr(RawStockText), followed_links_data |-> LinksGood]),
    JObj([ai_processed_data |-> JStr(RawNoise)]),
    JObj([ai_processed_data |-> JStr(RawMoversText)]),
    JObj([ai_processed_data |-> Wrapper(RawIndexText)]),
    JObj([ai_processed_data |-> Wrapper(RawIndexText), followed_links_data |-> LinksGood]),
    JObj([ai_processed_data |-> Wrapper(RawNoise)]),
    JObj([ai_processed_data |-> Wrapper(RawNoise), followed_links_data |-> LinksGood]),
    JObj([ai_processed_data |-> Throwing]) }

\* Object.keys(record.data) of the record
Sites == <<"tonghuashun", "akshare">>

SiteSet == {Sites[i] : i \in 1..Len(Sites)}

\* sites.sort(...): akshare first, the others in their original order
SortedSites(keys) ==
  SelectSeq(keys, LAMBDA k : k = "akshare") \o SelectSeq(keys, LAMBDA k : k # "akshare")

-----------------------------------------------------------------------------
(* The state: the record in memory and what the last renders produced.      *)

VARIABLES
  data,       \* record.data: site -> site datum, as the component holds it
  fetched,    \* record.data as the crawl snapshot was fetched
  siteOut,    \* site -> result of its canonicalisation in the last detail render
  firstOut,   \* siteOut of the first detail render of the record
  renders,    \* number of detail renders of the record so far
  agg,        \* extractStockData(record) of the last call
  aggSnap,    \* record.data at that call
  firstAgg,   \* extractStockData(record) of the first call
  rawText,    \* the argument of a call of transformRawData
  transformed,      \* what that call returned
  table,      \* a table of a followed link: its rows
  allTableStocks,   \* the stocks the followed-links extraction made of it
  chartData,  \* what prepareChartData returned for the record
  records,    \* the data state of App: the fetched records, as the server sent them
  loading,    \* the loading state of App
  manualCrawlStatus,
  mounted,    \* the effect of the first render has run
  calls,      \* the number of requests that await their response, by kind
  timers,     \* the refresh timers of triggerCrawl that have not fired
  triggered,  \* the number of calls of triggerCrawl so far
  posted,     \* the POST /crawl sent so far: manualCrawlStatus when each was sent
  modalOpen, selectedRecord, jsonModalOpen, jsonData,
  handled,    \* the calls of the four modal handlers so far, oldest first
  stocksPage, stocksPerPage, stocksOrderBy, stocksOrderDir, stocksFilter,
  stocksData, stocksTotal, stocksLoading,
  currentView,
  stocksCalls \* the calls of fetchStocks so far: the query sent and how it ended

crawlVars == <<loading, manualCrawlStatus, mounted, calls, timers, triggered, posted>>
modalVars == <<modalOpen, selectedRecord, jsonModalOpen, jsonData, handled>>
stocksQuery == <<stocksPage, stocksPerPage, stocksOrderBy, stocksOrderDir, stocksFilter>>
stocksVars == <<stocksQuery, stocksData, stocksTotal, stocksLoading, currentView, stocksCalls>>
appVars == <<records, crawlVars, modalVars, stocksVars>>

vars ==
  <<data, fetched, siteOut, firstOut, renders, agg, aggSnap, firstAgg,
    rawText, transformed, table, allTableStocks, chartData, appVars>>

\* the variables of the calls followed one at a time
textVars == <<rawText, transformed>>
tableVars == <<table, allTableStocks>>

\* no call of transformRawData, no table and no chart are followed
NoText == rawText = Undef /\ transformed = Undef
NoTable == table = <<>> /\ allTableStocks = Undef
NoChart == chartData = Undef

\* the state of App after its first render, before any effect ran
NoFeed == records = <<>>
NoCalls == [latest |-> 0, refresh |-> 0, post |-> 0, status |-> 0]
NoCrawl ==
  /\ loading = FALSE /\ manualCrawlStatus = Null /\ mounted = FALSE
  /\ calls = NoCalls /\ timers = 0 /\ triggered = 0 /\ posted = <<>>
NoModal ==
  /\ modalOpen = FALSE /\ selectedRecord = Null
  /\ jsonModalOpen = FALSE /\ jsonData = Null
  /\ handled = <<>>
NoStocks ==
  /\ stocksPage = 1 /\ stocksPerPage = 50
  /\ stocksOrderBy = "symbol" /\ stocksOrderDir = "ASC" /\ stocksFilter = ""
  /\ stocksData = <<>> /\ stocksTotal = 0 /\ stocksLoading = FALSE
  /\ currentView = "overview" /\ stocksCalls = <<>>
NoApp == NoFeed /\ NoCrawl /\ NoModal /\ NoStocks

\* number of renders of the detail modal the model follows
MaxRenders == 2

NotRun == [threw |-> FALSE, display |-> "notrun"]
NoAgg == [done |-> FALSE]

Init ==
  /\ data \in [SiteSet -> SiteData]
  /\ fetched = data
  /\ siteOut = [s \in SiteSet |-> NotRun]
  /\ firstOut = siteOut
  /\ renders = 0
  /\ agg = NoAgg
  /\ aggSnap = data
  /\ firstAgg = NoAgg
  /\ NoText /\ NoTable /\ NoChart /\ NoApp

\* sortedSites.map(...) from site i on: [data, out]; an exception in one
\* callback ends the map, and the later sites are not canonicalised
RECURSIVE MapSites(_, _, _, _)
RECURSIVE MapNext(_, _, _, _, _)
MapSites(keys, i, d, out) ==
  IF i > Len(keys) THEN [data |-> d, out |-> out]
  ELSE MapNext(keys, i, d, out, CanonicalizeSite(keys[i], d[keys[i]]))

\* site i gave r
MapNext(keys, i, d, out, r) ==
  IF r.threw
  THEN [data |-> [d EXCEPT ![keys[i]] = r.sd],
        out |-> [out EXCEPT ![keys[i]] = [threw |-> TRUE, display |-> "none"]]]
  ELSE MapSites(keys, i + 1, [d EXCEPT ![keys[i]] = r.sd],
                [out EXCEPT ![keys[i]] = [f \in (DOMAIN r) \ {"sd"} |-> r[f]]])

Rendered(r) ==
  /\ data' = r.data
  /\ siteOut' = r.out
  /\ firstOut' = IF renders = 0 THEN r.out ELSE firstOut

\* one render of the detail modal on the record
RenderDetail ==
  /\ renders < MaxRenders
  /\ Rendered(MapSites(SortedSites(Sites), 1, data, [s \in SiteSet |-> NotRun]))
  /\ renders' = renders + 1
  /\ UNCHANGED <<fetched, agg, aggSnap, firstAgg, textVars, tableVars, chartData, appVars>>

Extracted(stocks) ==
  /\ agg' = [done |-> TRUE, stocks |-> stocks]
  /\ firstAgg' = IF firstAgg.done THEN firstAgg ELSE [done |-> TRUE, stocks |-> stocks]

\* one call of extractStockData on the record
ExtractStockData ==
  /\ Extracted(extractStockData(Sites, data))
  /\ aggSnap' = data
  /\ UNCHANGED <<data, fetched, siteOut, firstOut, renders, textVars, tableVars, chartData, appVars>>

Next == RenderDetail \/ ExtractStockData

Spec == Init /\ [][Next]_vars

-----------------------------------------------------------------------------
(* transformRawData followed on its own: one call on one text.              *)

\* nothing has run on the record
NoRuns ==
  /\ fetched = data
  /\ siteOut = [s \in SiteSet |-> NotRun]
  /\ firstOut = siteOut
  /\ renders = 0
  /\ agg = NoAgg
  /\ aggSnap = data
  /\ firstAgg = NoAgg

\* no record is held
NoRecord == data = [s \in SiteSet |-> Null] /\ NoRuns

recordVars == <<data, fetched, siteOut, firstOut, renders, agg, aggSnap, firstAgg>>

\* the call has not returned
Pending == [t |-> "pending"]

\* the pieces the texts of the model are made of
Fragments ==
  { Code600519 \o <<":">> \o MaoTai \o <<":", "1", "6", "8", "8", ".", "0", "0">>,
    <<"Shang", "Zheng", "Zhi", "Shu", ":", " ", "3", "1", "2", "3", ".", "4", "5">>,
    MaoTai \o <<":", " ", "+", "5", ".", "2", "%">>,
    PuFaBank \o <<" ", "-", "3", ".", "1", "%">>,
    PuFaBank \o <<":", " ", "0", ".", "0", "0", "%">>,
    MaoTai \o <<" ", "-", "0", "%">>,
    OverviewSentence,
    RawNoise }

\* number of pieces of a text
MaxFragments == 2

\* the pieces fs in a row, a blank after each
RECURSIVE Joined(_)
Joined(fs) == IF fs = <<>> THEN <<>> ELSE Head(fs) \o <<" ">> \o Joined(Tail(fs))

\* the arguments of the model: texts, and values that are no text
RawTexts ==
  {JStr(Joined(fs)) : fs \in UNION {[1..n -> Fragments] : n \in 0..MaxFragments}}
  \cup {Null, Undef, JNum(42, 1), EmptyObj, JArr(<<JStr(RawStockText)>>)}

InitText ==
  /\ NoRecord /\ NoTable /\ NoChart /\ NoApp
  /\ rawText \in RawTexts
  /\ transformed = Pending

\* transformRawData(rawText)
TransformRawData ==
  /\ transformed = Pending
  /\ transformed' = transformRawData(rawText)
  /\ UNCHANGED <<rawText, recordVars, tableVars, chartData, appVars>>

NextText == TransformRawData

SpecText == InitText /\ [][NextText]_vars

-----------------------------------------------------------------------------
(* prepareChartData followed on its own: one call on one record.            *)

Priced(symbol, name, price, percent) ==
  JObj([symbol |-> JStr(symbol), name |-> JStr(name), price |-> JStr(price),
        change_percent |-> JStr(percent)])

\* 宁德时代新能源科技股份有限公司甲: a name of 16 characters
LongName ==
  <<"Ning", "De", "Shi", "Dai", "Xin", "Neng", "Yuan", "Ke", "Ji", "Gu", "Fen",
    "You", "Xian", "Gong", "Si", "Jia">>

\* the stocks the records of the model are made of: prices 10, 50, 5, 50.0,
\* a price '-', and a change that is no number (涨停)
ChartStocks ==
  { Priced(Code600000, PuFaBank, <<"1", "0">>, <<"+", "3", "%">>),
    Priced(Code600519, MaoTai, <<"5", "0">>, <<"-", "9", "%">>),
    Priced(<<"0", "0", "0", "0", "0", "1">>, <<"Shang", "Zheng", "Zhi", "Shu">>,
           <<"5">>, <<"0", ".", "5", "%">>),
    Priced(<<"3", "0", "0", "7", "5", "0">>, LongName,
           <<"5", "0", ".", "0">>, <<"+", "1", "2", ".", "5", "%">>),
    Priced(<<"3", "9", "9", "0", "0", "6">>, <<"Chuang", "Ye", "Ban", "Zhi", "Shu">>,
           Dash, <<"+", "7", "%">>),
    Priced(<<"0", "0", "0", "0", "0", "2">>, <<"Wan", "Ke">>,
           <<"7", ".", "5">>, <<"Zhang", "Ting">>) }

\* 601398 工商银行 100 +1%
FillStock ==
  Priced(<<"6", "0", "1", "3", "9", "8">>, <<"Gong", "Shang", "Yin", "Hang">>,
         <<"1", "0", "0">>, <<"+", "1", "%">>)

\* number of different stocks the second site of a record has
MaxSeed == 4
\* number of equal stocks the first site of a record has, if any
MaxFill == 18

\* the stock lists without a repeated stock
SeedLists ==
  UNION {{f \in [1..n -> ChartStocks] : \A i, j \in 1..n : f[i] = f[j] => i = j} : n \in 0..MaxSeed}

ChartRecord(fill, seed) ==
  [s \in SiteSet |->
     IF s = Sites[1]
     THEN JObj([ai_processed_data |-> JObj([stocks |-> JArr([i \in 1..fill |-> FillStock])])])
     ELSE JObj([ai_processed_data |-> JArr(seed)])]

InitChart ==
  /\ data \in {ChartRecord(fill, seed) : fill \in {0, MaxFill}, seed \in SeedLists}
  /\ NoRuns /\ NoText /\ NoTable /\ NoApp
  /\ chartData = Pending

\* const chartData = prepareChartData()
PrepareChartData ==
  /\ chartData = Pending
  /\ chartData' = prepareChartData(Sites, data)
  /\ UNCHANGED <<recordVars, textVars, tableVars, appVars>>

NextChart == PrepareChartData

SpecChart == InitChart /\ [][NextChart]_vars

-----------------------------------------------------------------------------
(* The table extraction of the followed links followed on its own: one      *)
(* followed link with one table, whose rows are arrays of text cells.       *)

Code700000 == <<"7", "0", "0", "0", "0", "0">>
SevenDigits == <<"1", "6", "0", "0", "0", "0", "0">>
PrefixedCode == <<"s", "h">> \o Code600000                     \* sh600000
PriceText == <<"1", "0", ".", "5", "0">>                       \* 10.50
PercentText == <<"+", "2", ".", "4", "%">>                     \* +2.4%
VolumeText == <<"3", "0", "0", "0", "Wan">>                    \* 3000万

\* the texts a cell of a row is drawn from
CellTexts ==
  {Code600000, Code700000, SevenDigits, PrefixedCode, PuFaBank, PriceText,
   PercentText, VolumeText}

MaxCells == 3
MaxRows == 2

\* ["000001", "+0.25", "-1.2%", "3000万", "10.50"]
FullRow ==
  JArr(<<JStr(<<"0", "0", "0", "0", "0", "1">>), JStr(<<"+", "0", ".", "2", "5">>),
         JStr(<<"-", "1", ".", "2", "%">>), JStr(VolumeText), JStr(PriceText)>>)

\* the rows of up to MaxCells cells
CellRows ==
  UNION {{JArr([i \in 1..n |-> JStr(f[i])]) : f \in [1..n -> CellTexts]} : n \in 0..MaxCells}

SampleRows == {HeaderRow, DataRow, FullRow, JArr(<<JStr(Code600519)>>)}

\* a first row and one row of cells, or a first row and some of the sample rows
Tables ==
  {<<>>}
    \cup {<<h, r>> : h \in {HeaderRow, DataRow}, r \in CellRows}
    \cup UNION {{<<HeaderRow>> \o [i \in 1..n |-> f[i]] : f \in [1..n -> SampleRows]}
                  : n \in 0..MaxRows}

\* the site datum whose one followed link holds the table
LinkDatum(rows) ==
  JObj([followed_links_data |-> JArr(<<JObj([tables |-> JArr(<<JArr(rows)>>)])>>)])

InitTable ==
  /\ table \in Tables
  /\ allTableStocks = Pending
  /\ NoRecord /\ NoText /\ NoChart /\ NoApp

\* siteData.followed_links_data.forEach(linkData => ...)
ExtractTable ==
  /\ allTableStocks = Pending
  /\ allTableStocks' = FollowedLinks(LinkDatum(table))
  /\ UNCHANGED <<table, recordVars, textVars, chartData, appVars>>

NextTable == ExtractTable

SpecTable == InitTable /\ [][NextTable]_vars

-----------------------------------------------------------------------------
(* prepareChartData on the list of fetched records.                         *)

\* extractStockData(record): no stocks of a record without data
StocksOfRecord(record) ==
  IF record = Null \/ record.data = Null THEN <<>>
  ELSE extractStockData(Sites, record.data)

\* prepareChartData() on the data state rs: latestRecord = data[0]
prepareChartDataOf(rs) ==
  IF Len(rs) = 0 THEN Null
  ELSE IF rs[1] = Null THEN Null
  ELSE ChartsOfStocks(StocksOfRecord(rs[1]))

\* number of records of a response, number of crawl times
MaxRecords == 2
MaxStamp == 3

\* what a record holds: one of two stocks, no stock, or no data at all
FeedPayloads ==
  { ChartRecord(0, <<Priced(Code600000, PuFaBank, <<"1", "0">>, <<"+", "3", "%">>)>>),
    ChartRecord(0, <<Priced(Code600519, MaoTai, <<"5", "0">>, <<"-", "9", "%">>)>>),
    ChartRecord(0, <<>>),
    Null }

FeedRecords == [timestamp : 1..MaxStamp, data : FeedPayloads]

\* the responses of GET /data/latest: records with different timestamps
Feeds ==
  UNION {{f \in [1..n -> FeedRecords] :
            \A i, j \in 1..n : f[i].timestamp = f[j].timestamp => i = j}
           : n \in 0..MaxRecords}

InitFeed ==
  /\ records \in Feeds
  /\ chartData = Pending
  /\ NoRecord /\ NoText /\ NoTable /\ NoCrawl /\ NoModal /\ NoStocks

\* const chartData = prepareChartData()
PrepareChartDataOf ==
  /\ chartData = Pending
  /\ chartData' = prepareChartDataOf(records)
  /\ UNCHANGED <<recordVars, textVars, tableVars, appVars>>

NextFeed == PrepareChartDataOf

SpecFeed == InitFeed /\ [][NextFeed]_vars

-----------------------------------------------------------------------------
(* transformRawData on texts that mention one stock or some indices.        *)

\* the parts of a stock mention
MentionCodes == {Code600519, <<"0", "0", "0", "0", "0", "1">>}
MentionNames == {MaoTai, <<"Hu", "Shen", "3", "0", "0">>, <<"A", "B", "G">>}
MentionPrices == {<<"1", "6", "8", "8", ".", "0", "0">>, <<"1", "0">>}
MentionChanges == {<<"+", "1", "2", ".", "5", "0">>, <<"-", "3">>}
MentionPercents == {<<"+", "0", ".", "7", "5", "%">>, <<"-", "9", "%">>}
\* what stands between two parts: ':', whitespace, ','
MentionSeps == {<<":">>, <<" ">>, <<",">>, <<":", " ">>}

\* code, name and price with sep between them, change and percentage with
\* sep2 in front of each
StockMention(code, name, price, change, percent, sep, sep2) ==
  code \o sep \o name \o sep \o price \o sep2 \o change \o sep2 \o percent

StockMentions ==
  {StockMention(c, n, p, ch, pc, s1, s2) :
     c \in MentionCodes, n \in MentionNames, p \in MentionPrices,
     ch \in MentionChanges, pc \in MentionPercents, s1 \in MentionSeps, s2 \in MentionSeps}

\* 深证指数 and 恒生指数 are no names of the vocabulary
OtherIndexNames == {<<"Shen", "Zheng", "Zhi", "Shu">>, <<"Heng", "Sheng", "Zhi", "Shu">>}
MentionIndexNames == {IndexNames[i] : i \in 1..Len(IndexNames)} \cup OtherIndexNames
IndexSeps == {<<":">>, <<" ">>, <<":", " ">>}
IndexValues == {<<"3", "1", "2", "3", ".", "4", "5">>, <<"2", "5", "0", "0">>}
\* what follows the value: nothing, (+0.45%), a blank and (+0.45%), -1.2%
IndexTails ==
  { [pre |-> <<>>, percent |-> <<>>, post |-> <<>>],
    [pre |-> <<"(">>, percent |-> <<"+", "0", ".", "4", "5", "%">>, post |-> <<")">>],
    [pre |-> <<" ", "(">>, percent |-> <<"+", "0", ".", "4", "5", "%">>, post |-> <<")">>],
    [pre |-> <<" ">>, percent |-> <<"-", "1", ".", "2", "%">>, post |-> <<>>] }

IndexMention(name, sep, value, tail) ==
  name \o sep \o value \o tail.pre \o tail.percent \o tail.post

IndexMentions ==
  {IndexMention(n, s, v, t) :
     n \in MentionIndexNames, s \in IndexSeps, v \in IndexValues, t \in IndexTails}

\* the mentions two of which make a longer text
PairedMentions ==
  {IndexMention(n, <<":", " ">>, <<"2", "5", "0", "0">>, t) :
     n \in {IndexNames[1], IndexNames[6], <<"Shen", "Zheng", "Zhi", "Shu">>}, t \in IndexTails}

MentionTexts ==
  StockMentions \cup IndexMentions
    \cup {a \o <<" ">> \o b : a \in PairedMentions, b \in PairedMentions}

InitMention ==
  /\ NoRecord /\ NoTable /\ NoChart /\ NoApp
  /\ rawText \in {JStr(t) : t \in MentionTexts}
  /\ transformed = Pending

SpecMention == InitMention /\ [][NextText]_vars

-----------------------------------------------------------------------------
(* The crawl button: triggerCrawl, fetchLatestData, fetchRateLimitStatus,   *)
(* the effect of the first render and the timers.  A request is in flight   *)
(* from the call that sends it to the step that handles its response; calls *)
(* counts the requests in flight: latest (GET /data/latest of the first     *)
(* render), refresh (GET /data/latest of a refresh timer), post (POST       *)
(* /crawl) and status (GET /rate_limit_status).  fetchStats touches stats   *)
(* alone and is left out.                                                   *)

\* number of calls of triggerCrawl, number of status polls in flight
MaxCrawls == 2
MaxPolls == 1

\* manualCrawlStatus && !manualCrawlStatus.can_crawl, with every status open
Blocked_Never(status) == FALSE

\* manualCrawlStatus && !manualCrawlStatus.can_crawl
Blocked(status) == Truthy(status) /\ ~Truthy(Get(status, "can_crawl"))

\* disabled={loading || (manualCrawlStatus && !manualCrawlStatus.can_crawl)}
ButtonDisabled ==
  loading \/ (Truthy(manualCrawlStatus) /\ ~Truthy(Get(manualCrawlStatus, "can_crawl")))

\* response.data.manual_crawl of GET /rate_limit_status
StatusResponses ==
  {JObj([can_crawl |-> JBool(TRUE)]), JObj([can_crawl |-> JBool(FALSE)]), Undef}

\* response.data.records of GET /data/latest; Undef: a response without records
LatestResponses ==
  { Undef,
    JArr(<<[timestamp |-> 1,
            data |-> ChartRecord(0, <<Priced(Code600000, PuFaBank, <<"1", "0">>, <<"+", "3", "%">>)>>)]>>) }

\* POST /crawl ends with success, with status 429 or with another error
PostOutcomes == {"ok", "429", "error"}

InitCrawl ==
  /\ NoRecord /\ NoText /\ NoTable /\ NoChart
  /\ NoFeed /\ NoCrawl /\ NoModal /\ NoStocks

frameCrawl == <<recordVars, textVars, tableVars, chartData, modalVars, stocksVars>>

\* useEffect(() => { fetchLatestData(); fetchStats(); fetchRateLimitStatus(); ... }, [])
Mount ==
  /\ ~mounted
  /\ mounted' = TRUE
  /\ loading' = TRUE
  /\ calls' = [calls EXCEPT !.latest = @ + 1, !.status = @ + 1]
  /\ UNCHANGED <<records, manualCrawlStatus, timers, triggered, posted, frameCrawl>>

\* setInterval(() => { fetchRateLimitStatus(); }, 5000)
PollStatus ==
  /\ mounted
  /\ calls.status < MaxPolls
  /\ calls' = [calls EXCEPT !.status = @ + 1]
  /\ UNCHANGED <<records, loading, manualCrawlStatus, mounted, timers, triggered, posted,
                 frameCrawl>>

\* triggerCrawl up to its await: the rate limit check, setLoading(true), the POST
TriggerCrawl ==
  /\ triggered < MaxCrawls
  /\ triggered' = triggered + 1
  /\ IF Blocked(manualCrawlStatus)
     THEN UNCHANGED <<loading, calls, posted>>
     ELSE /\ loading' = TRUE
          /\ calls' = [calls EXCEPT !.post = @ + 1]
          /\ posted' = Append(posted, manualCrawlStatus)
  /\ UNCHANGED <<records, manualCrawlStatus, mounted, timers, frameCrawl>>

\* onClick={triggerCrawl} of the button as it is rendered
ClickCrawl == ~ButtonDisabled /\ TriggerCrawl

\* triggerCrawl after its await, with a catch branch that leaves loading alone
PostResponse_KeepLoading ==
  /\ calls.post > 0
  /\ \E outcome \in PostOutcomes :
       /\ calls' = [calls EXCEPT !.post = @ - 1,
                                 !.status = IF outcome = "error" THEN @ ELSE @ + 1]
       /\ timers' = IF outcome = "ok" THEN timers + 1 ELSE timers
  /\ UNCHANGED <<records, loading, manualCrawlStatus, mounted, triggered, posted, frameCrawl>>

\* triggerCrawl after its await: the refresh timer, or the catch branch
PostResponse ==
  /\ calls.post > 0
  /\ \E outcome \in PostOutcomes :
       /\ calls' = [calls EXCEPT !.post = @ - 1,
                                 !.status = IF outcome = "error" THEN @ ELSE @ + 1]
       /\ timers' = IF outcome = "ok" THEN timers + 1 ELSE timers
       /\ loading' = IF outcome = "ok" THEN loading ELSE FALSE
  /\ UNCHANGED <<records, manualCrawlStatus, mounted, triggered, posted, frameCrawl>>

\* setTimeout(() => { fetchLatestData(); fetchStats(); fetchRateLimitStatus(); }, 10000)
RefreshTimer ==
  /\ timers > 0
  /\ timers' = timers - 1
  /\ loading' = TRUE
  /\ calls' = [calls EXCEPT !.refresh = @ + 1, !.status = @ + 1]
  /\ UNCHANGED <<records, manualCrawlStatus, mounted, triggered, posted, frameCrawl>>

\* fetchLatestData after its await: setData on success, setLoading(false) always
LatestResponse ==
  /\ \E kind \in {"latest", "refresh"} :
       /\ calls[kind] > 0
       /\ calls' = [calls EXCEPT ![kind] = @ - 1]
  /\ \/ \E r \in LatestResponses : records' = IF Truthy(r) THEN r.a ELSE <<>>
     \/ UNCHANGED records
  /\ loading' = FALSE
  /\ UNCHANGED <<manualCrawlStatus, mounted, timers, triggered, posted, frameCrawl>>

\* fetchRateLimitStatus after its await: setManualCrawlStatus on success
StatusResponse ==
  /\ calls.status > 0
  /\ calls' = [calls EXCEPT !.status = @ - 1]
  /\ \/ \E r \in StatusResponses : manualCrawlStatus' = r
     \/ UNCHANGED manualCrawlStatus
  /\ UNCHANGED <<records, loading, mounted, timers, triggered, posted, frameCrawl>>

Responses == PostResponse \/ LatestResponse \/ StatusResponse

\* the page as a user drives it: triggerCrawl runs on a click of the button
NextCrawl == Mount \/ PollStatus \/ ClickCrawl \/ Responses \/ RefreshTimer

SpecCrawl == InitCrawl /\ [][NextCrawl]_vars

\* every request gets its response and every timer fires
SpecCrawlLive ==
  /\ InitCrawl /\ [][NextCrawl]_vars
  /\ WF_vars(PostResponse) /\ WF_vars(LatestResponse) /\ WF_vars(RefreshTimer)

\* triggerCrawl called whatever the button shows
NextGuard == Mount \/ PollStatus \/ TriggerCrawl \/ Responses \/ RefreshTimer

SpecGuard == InitCrawl /\ [][NextGuard]_vars

-----------------------------------------------------------------------------
(* The detail modal and the JSON modal.  The state updates of one handler   *)
(* are rendered together, so a handler is one step.                         *)

\* number of handler calls
MaxHandled == 3

\* the records a row of the history table can hand to a handler
ModalRecords ==
  { [timestamp |-> 1,
     data |-> ChartRecord(0, <<Priced(Code600000, PuFaBank, <<"1", "0">>, <<"+", "3", "%">>)>>)],
    [timestamp |-> 2, data |-> Null] }

InitModal ==
  /\ NoRecord /\ NoText /\ NoTable /\ NoChart
  /\ NoFeed /\ NoCrawl /\ NoModal /\ NoStocks

frameModal == <<recordVars, textVars, tableVars, chartData, records, crawlVars, stocksVars>>

\* handleCloseModal without setSelectedRecord(null)
handleCloseModal_KeepRecord ==
  /\ Len(handled) < MaxHandled
  /\ modalOpen' = FALSE
  /\ handled' = Append(handled, [op |-> "handleCloseModal", record |-> Null])
  /\ UNCHANGED <<selectedRecord, jsonModalOpen, jsonData, frameModal>>

\* setSelectedRecord(record); setModalOpen(true)
handleOpenModal ==
  /\ Len(handled) < MaxHandled
  /\ \E record \in ModalRecords :
       /\ selectedRecord' = record
       /\ handled' = Append(handled, [op |-> "handleOpenModal", record |-> record])
  /\ modalOpen' = TRUE
  /\ UNCHANGED <<jsonModalOpen, jsonData, frameModal>>

\* setModalOpen(false); setSelectedRecord(null)
handleCloseModal ==
  /\ Len(handled) < MaxHandled
  /\ modalOpen' = FALSE
  /\ selectedRecord' = Null
  /\ handled' = Append(handled, [op |-> "handleCloseModal", record |-> Null])
  /\ UNCHANGED <<jsonModalOpen, jsonData, frameModal>>

\* setJsonData(record); setJsonModalOpen(true)
handleOpenJsonModal ==
  /\ Len(handled) < MaxHandled
  /\ \E record \in ModalRecords :
       /\ jsonData' = record
       /\ handled' = Append(handled, [op |-> "handleOpenJsonModal", record |-> record])
  /\ jsonModalOpen' = TRUE
  /\ UNCHANGED <<modalOpen, selectedRecord, frameModal>>

\* setJsonModalOpen(false); setJsonData(null)
handleCloseJsonModal ==
  /\ Len(handled) < MaxHandled
  /\ jsonModalOpen' = FALSE
  /\ jsonData' = Null
  /\ handled' = Append(handled, [op |-> "handleCloseJsonModal", record |-> Null])
  /\ UNCHANGED <<modalOpen, selectedRecord, frameModal>>

NextModal ==
  handleOpenModal \/ handleCloseModal \/ handleOpenJsonModal \/ handleCloseJsonModal

SpecModal == InitModal /\ [][NextModal]_vars

-----------------------------------------------------------------------------
(* The stock list: fetchStocks, its effect and the controls of the stocks   *)
(* view.  A control's handler, the render that follows and the effect on    *)
(* the changed query are one step.  The server is a table of stocks that    *)
(* answers GET /stocks by filtering on the symbol, sorting and paging.      *)

\* number of calls of fetchStocks, number of stocks the server holds
MaxRequests == 3
MaxListed == 26

\* the values of the controls the model uses
PerPageChoices == {25, 50}
OrderByChoices == {"symbol", "price"}
OrderDirChoices == {"ASC", "DESC"}
FilterChoices == {"", "60001"}

\* the stocks of the server: 600001, 600002, ... with distinct prices
Listed == 1..MaxListed
ListedPrice(i) == (i * 7) % 29
ListedStock(i) == [symbol |-> 600000 + i, price |-> ListedPrice(i)]

\* symbols that contain "60001": 600010 .. 600019
Matches(i, filter) == filter = "" \/ (i \in 10..19)

SortField(i, orderBy) == IF orderBy = "price" THEN ListedPrice(i) ELSE i

RECURSIVE Ordered(_, _, _)
Ordered(ids, orderBy, orderDir) ==
  IF ids = {} THEN <<>>
  ELSE LET first == CHOOSE i \in ids :
                      \A j \in ids :
                        IF orderDir = "ASC"
                        THEN SortField(i, orderBy) <= SortField(j, orderBy)
                        ELSE SortField(i, orderBy) >= SortField(j, orderBy)
       IN <<ListedStock(first)>> \o Ordered(ids \ {first}, orderBy, orderDir)

PageOf(rows, page, perPage) ==
  IF (page - 1) * perPage >= Len(rows) THEN <<>>
  ELSE SubSeq(rows, (page - 1) * perPage + 1,
              IF page * perPage < Len(rows) THEN page * perPage ELSE Len(rows))

\* response.data of GET /stocks?page=..&per_page=..&order_by=..&order_dir=..[&symbol=..]
ServerStocks(query) ==
  [stocks |-> PageOf(Ordered({i \in Listed : Matches(i, query.symbol)},
                             query.order_by, query.order_dir),
                     query.page, query.per_page),
   total |-> Cardinality({i \in Listed : Matches(i, query.symbol)})]

\* the parameters fetchStocks sends
QueryOf(page, perPage, orderBy, orderDir, filter) ==
  [page |-> page, per_page |-> perPage, order_by |-> orderBy, order_dir |-> orderDir,
   symbol |-> filter]

CurrentQuery ==
  QueryOf(stocksPage, stocksPerPage, stocksOrderBy, stocksOrderDir, stocksFilter)

\* count={Math.ceil(stocksTotal / stocksPerPage)}
PageCount == (stocksTotal + stocksPerPage - 1) \div stocksPerPage

InFlight == {i \in 1..Len(stocksCalls) : stocksCalls[i].state = "sent"}

InitStocks ==
  /\ NoRecord /\ NoText /\ NoTable /\ NoChart
  /\ NoFeed /\ NoCrawl /\ NoModal /\ NoStocks

frameStocks == <<recordVars, textVars, tableVars, chartData, records, crawlVars, modalVars>>

\* fetchStocks up to its await, with the query of the render it runs in
FetchStocks(query) ==
  /\ Len(stocksCalls) < MaxRequests
  /\ stocksLoading' = TRUE
  /\ stocksCalls' = Append(stocksCalls, [query |-> query, state |-> "sent"])
  /\ UNCHANGED <<stocksData, stocksTotal, frameStocks>>

\* onClick={() => { setCurrentView('stocks'); fetchStocks(); }}
OpenStocks ==
  /\ currentView # "stocks"
  /\ currentView' = "stocks"
  /\ FetchStocks(CurrentQuery)
  /\ UNCHANGED stocksQuery

\* onChange of the filter field, then the effect on the changed query
ChangeFilter ==
  /\ currentView = "stocks"
  /\ \E value \in FilterChoices \ {stocksFilter} :
       /\ stocksFilter' = value
       /\ stocksPage' = 1
       /\ FetchStocks(QueryOf(1, stocksPerPage, stocksOrderBy, stocksOrderDir, value))
  /\ UNCHANGED <<stocksPerPage, stocksOrderBy, stocksOrderDir, currentView>>

\* onChange of the sort field, then the effect
ChangeOrderBy ==
  /\ currentView = "stocks"
  /\ \E value \in OrderByChoices \ {stocksOrderBy} :
       /\ stocksOrderBy' = value
       /\ stocksPage' = 1
       /\ FetchStocks(QueryOf(1, stocksPerPage, value, stocksOrderDir, stocksFilter))
  /\ UNCHANGED <<stocksPerPage, stocksOrderDir, stocksFilter, currentView>>

\* onChange of the sort direction, then the effect
ChangeOrderDir ==
  /\ currentView = "stocks"
  /\ \E value \in OrderDirChoices \ {stocksOrderDir} :
       /\ stocksOrderDir' = value
       /\ stocksPage' = 1
       /\ FetchStocks(QueryOf(1, stocksPerPage, stocksOrderBy, value, stocksFilter))
  /\ UNCHANGED <<stocksPerPage, stocksOrderBy, stocksFilter, currentView>>

\* onChange of the page size, then the effect
ChangePerPage ==
  /\ currentView = "stocks"
  /\ \E value \in PerPageChoices \ {stocksPerPage} :
       /\ stocksPerPage' = value
       /\ stocksPage' = 1
       /\ FetchStocks(QueryOf(1, value, stocksOrderBy, stocksOrderDir, stocksFilter))
  /\ UNCHANGED <<stocksOrderBy, stocksOrderDir, stocksFilter, currentView>>

\* onChange of Pagination, which is rendered while stocksLoading is false
ChangePage ==
  /\ currentView = "stocks"
  /\ ~stocksLoading
  /\ \E value \in (1..PageCount) \ {stocksPage} :
       /\ stocksPage' = value
       /\ FetchStocks(QueryOf(value, stocksPerPage, stocksOrderBy, stocksOrderDir, stocksFilter))
  /\ UNCHANGED <<stocksPerPage, stocksOrderBy, stocksOrderDir, stocksFilter, currentView>>

\* fetchStocks after its await: the response is stored, or the error logged
StocksResponse ==
  /\ \E i \in InFlight :
       \/ /\ stocksData' = ServerStocks(stocksCalls[i].query).stocks
          /\ stocksTotal' = ServerStocks(stocksCalls[i].query).total
          /\ stocksCalls' = [stocksCalls EXCEPT ![i].state = "ok"]
       \/ /\ UNCHANGED <<stocksData, stocksTotal>>
          /\ stocksCalls' = [stocksCalls EXCEPT ![i].state = "failed"]
  /\ stocksLoading' = FALSE
  /\ UNCHANGED <<stocksQuery, currentView, frameStocks>>

NextStocks ==
  \/ OpenStocks
  \/ ChangeFilter \/ ChangeOrderBy \/ ChangeOrderDir \/ ChangePerPage \/ ChangePage
  \/ StocksResponse

SpecStocks == InitStocks /\ [][NextStocks]_vars

-----------------------------------------------------------------------------
(* The properties checked on the model.                                     *)

\* site s was canonicalised by the last render and its callback returned
Ran(s) == renders >= 1 /\ siteOut[s] # NotRun /\ ~siteOut[s].threw

\* the elements of a list value
Items(v) == IF v.t = "array" THEN v.a ELSE <<>>

\* every element of sub occurs in list
Contains(list, sub) == \A i \in 1..Len(sub) : \E j \in 1..Len(list) : list[j] = sub[i]

\* the site datum without its followed links
WithoutLinks(sd) ==
  IF sd.t = "object"
  THEN JObj([k \in (DOMAIN sd.f) \ {"followed_links_data"} |-> sd.f[k]])
  ELSE sd

HasLinks(sd) == Truthy(Get(sd, "followed_links_data"))

\* C1: Extraction never mutates the snapshot: after extractStockData or the
\* per-site canonicalisation of the detail view has run on a record, every
\* site's ai_processed_data and followed_links_data equal what was fetched.
C1_SnapshotUnchanged ==
  \A s \in SiteSet :
    /\ Get(data[s], "ai_processed_data") = Get(fetched[s], "ai_processed_data")
    /\ Get(data[s], "followed_links_data") = Get(fetched[s], "followed_links_data")

\* the stocks and indices a render reported for a site
ListsOf(o) == IF "stocks" \in DOMAIN o THEN <<o.stocks, o.indices>> ELSE <<>>

\* C2: Idempotence: every later run on the same record gives the same
\* per-site stocks and indices, and the same aggregated stock list, as the
\* first run.
C2_Idempotent ==
  /\ \A s \in SiteSet : ListsOf(siteOut[s]) = ListsOf(firstOut[s])
  /\ agg.done => agg.stocks = firstAgg.stocks

\* the stocks of an aggregated list tagged with site y, in their order
TaggedWith(stocks, y) == SelectSeq(stocks, LAMBDA e : e.site = y)

\* C3: Isolation in aggregation: replacing the payload of one site X by any
\* other payload (null, a string, an array, an object whose field access
\* throws) leaves, for every other site Y, the stocks extractStockData tags
\* with Y the same and in the same order; the call always returns a list.
C3_Isolation ==
  agg.done =>
    \A x \in SiteSet : \A p \in SiteData : \A y \in SiteSet \ {x} :
      TaggedWith(extractStockData(Sites, [aggSnap EXCEPT ![x] = p]), y)
        = TaggedWith(agg.stocks, y)

\* extractStockData ran on a record whose first site has a payload whose
\* field access throws, and the stocks of the site after it are in the list
C3_Witness ==
  /\ agg.done
  /\ aggSnap[Sites[1]] = JObj([ai_processed_data |-> Throwing])
  /\ TaggedWith(agg.stocks, Sites[2]) # <<>>

\* C4: A malformed payload of one site never aborts the canonicalisation of
\* the record: after a render every site has its result.
C4_RenderCompletes ==
  renders >= 1 => \A s \in SiteSet : siteOut[s] # NotRun /\ ~siteOut[s].threw

IsPlaceholder(symbol, name) == symbol \in PlaceholderSymbols \/ name \in PlaceholderNames

\* C5: Placeholder exclusion on every path: no stock with a placeholder
\* symbol or a placeholder name is in a site's result or in the aggregated
\* list.
C5_NoPlaceholder ==
  /\ \A s \in SiteSet :
       Ran(s) =>
         \A i \in 1..Len(Items(siteOut[s].stocks)) :
           ~IsPlaceholder(Get(Items(siteOut[s].stocks)[i], "symbol"),
                          Get(Items(siteOut[s].stocks)[i], "name"))
  /\ agg.done =>
       \A i \in 1..Len(agg.stocks) : ~IsPlaceholder(agg.stocks[i].symbol, agg.stocks[i].name)

\* out has what the followed links gave and what the datum gives without them
Additive(out, links, base) ==
  /\ ~links.threw /\ ~base.threw
  /\ Contains(Items(out.stocks), links.stocks) /\ Contains(Items(out.indices), links.indices)
  /\ Contains(Items(out.stocks), Items(base.stocks))
  /\ Contains(Items(out.indices), Items(base.indices))
  /\ Contains(Items(out.topGainers), Items(base.topGainers))
  /\ Contains(Items(out.topLosers), Items(base.topLosers))
  /\ base.marketOverview # JStr(NA) => out.marketOverview = base.marketOverview
  /\ Truthy(base.tradingSummary) => out.tradingSummary = base.tradingSummary

\* C6: Followed-links extraction is additive for every primary payload: the
\* result of a site with followed links has every stock and index of the
\* links and everything the primary payload yields without them.
C6_LinksAdditive ==
  \A s \in SiteSet :
    (renders = 1 /\ siteOut[s] # NotRun /\ HasLinks(fetched[s])
       /\ ~FollowedLinks(fetched[s]).threw)
    => /\ ~siteOut[s].threw
       /\ Additive(siteOut[s], FollowedLinks(fetched[s]),
                   CanonicalizeSite(s, WithoutLinks(fetched[s])))

AllEmpty(out) ==
  /\ Items(out.stocks) = <<>> /\ Items(out.indices) = <<>>
  /\ Items(out.topGainers) = <<>> /\ Items(out.topLosers) = <<>>

\* nothing can be recovered from the datum's preview
NoRecoverableText(sd) ==
  ~Truthy(Get(sd, "raw_data_preview")) \/ ~Truthy(transformRawData(Get(sd, "raw_data_preview")))

\* C7: Empty-result distinction: a site without a datum gets an all-empty
\* result with hadError false; a site with an error marker and no
\* recoverable text gets hadError true with empty stocks, indices,
\* topGainers and topLosers.
C7_EmptyDistinction ==
  \A s \in SiteSet :
    (renders >= 1 /\ siteOut[s] # NotRun) =>
      /\ ~Truthy(data[s]) =>
           ~siteOut[s].threw /\ ~siteOut[s].hadError /\ AllEmpty(siteOut[s])
      /\ (Truthy(data[s]) /\ Truthy(Get(data[s], "error")) /\ NoRecoverableText(data[s])) =>
           ~siteOut[s].threw /\ siteOut[s].hadError /\ AllEmpty(siteOut[s])

\* a render canonicalised a site without a datum and a site with an error
\* marker alone
C7_Witness ==
  \E s, t \in SiteSet :
    /\ Ran(s) /\ Ran(t)
    /\ data[s] = Null /\ ~siteOut[s].hadError
    /\ data[t] = JObj([error |-> ErrorText]) /\ siteOut[t].hadError

\* out carries what raw-text extraction recovered (tr), or nothing
Recovered(out, tr) ==
  IF Truthy(tr)
  THEN /\ Contains(Items(out.stocks), Items(Get(tr, "stocks")))
       /\ Contains(Items(out.indices), Items(Get(tr, "indices")))
  ELSE AllEmpty(out)

\* C8: Upstream-error recovery: for a datum with an error marker and a
\* preview, raw-text extraction runs on the preview and what it recovers is
\* in the result, with hadError true; without a preview the result is empty.
C8_ErrorRecovery ==
  \A s \in SiteSet :
    (Ran(s) /\ Truthy(Get(data[s], "error"))) =>
      /\ siteOut[s].hadError
      /\ IF Truthy(Get(data[s], "raw_data_preview"))
         THEN Recovered(siteOut[s], transformRawData(Get(data[s], "raw_data_preview")))
         ELSE AllEmpty(siteOut[s])

\* out is what the string gives: the decoded structure j, or what raw-text
\* extraction recovers from the string
FromString(out, text, j) ==
  IF j.ok
  THEN /\ Contains(Items(out.stocks), Items(Or(Get(j.v, "stocks"), NoList)))
       /\ Contains(Items(out.indices), Items(Or(Get(j.v, "indices"), NoList)))
       /\ ~out.usedFallback
  ELSE /\ Recovered(out, transformRawData(text))
       /\ out.usedFallback = Truthy(transformRawData(text))

\* out differs from base by added entries only
SameOutcome(out, base) ==
  /\ ~base.threw
  /\ Contains(Items(out.stocks), Items(base.stocks))
  /\ Contains(Items(out.indices), Items(base.indices))
  /\ out.usedFallback = base.usedFallback
  /\ out.isRawResponse = base.isRawResponse

\* C9: Encoded-string payloads: a string that decodes as JSON gives the
\* decoded structure; one that does not is passed to raw-text extraction
\* (usedFallback); no exception propagates; and the outcome is the same with
\* and without followed links, apart from the added entries.
C9_EncodedString ==
  \A s \in SiteSet :
    (renders = 1 /\ siteOut[s] # NotRun /\ ~Truthy(Get(fetched[s], "error"))
       /\ Get(fetched[s], "ai_processed_data").t = "string"
       /\ ~FollowedLinks(fetched[s]).threw)
    => /\ ~siteOut[s].threw
       /\ FromString(siteOut[s], Get(fetched[s], "ai_processed_data"),
                     JSONParse(Get(fetched[s], "ai_processed_data").s))
       /\ SameOutcome(siteOut[s], CanonicalizeSite(s, WithoutLinks(fetched[s])))

\* out keeps the structured fields of the wrapper pd
KeepsFields(out, pd) ==
  /\ Contains(Items(out.stocks), Items(Or(Get(pd, "stocks"), NoList)))
  /\ Contains(Items(out.indices), Items(Or(Get(pd, "indices"), NoList)))
  /\ Contains(Items(out.topGainers), Items(Or(Get(pd, "top_gainers"), NoList)))
  /\ Contains(Items(out.topLosers), Items(Or(Get(pd, "top_losers"), NoList)))
  /\ Truthy(Get(pd, "market_overview")) => out.marketOverview = Get(pd, "market_overview")
  /\ Truthy(Get(pd, "trading_summary")) => out.tradingSummary = Get(pd, "trading_summary")

\* out has what raw-text extraction recovered from the wrapped text
HasRecovered(out, tr) ==
  Truthy(tr) => /\ Contains(Items(out.stocks), Items(Get(tr, "stocks")))
                /\ Contains(Items(out.indices), Items(Get(tr, "indices")))

IsWrapper(pd) == pd.t = "object" /\ Get(pd, "raw_response").t # "undefined"

\* C10: Raw-response wrapper merge: the result has what is recovered from
\* the wrapped text and every structured field beside the wrapper (stocks,
\* indices, top_gainers, top_losers, market_overview, trading_summary), also
\* when nothing is recovered from the text.
C10_WrapperMerge ==
  \A s \in SiteSet :
    (Ran(s) /\ ~Truthy(Get(fetched[s], "error"))
       /\ IsWrapper(Get(fetched[s], "ai_processed_data")))
    => /\ KeepsFields(siteOut[s], Get(fetched[s], "ai_processed_data"))
       /\ HasRecovered(siteOut[s],
                       transformRawData(Get(Get(fetched[s], "ai_processed_data"), "raw_response")))

\* the text the canonicalisation of sd passes to raw-text extraction
FallbackText(sd) ==
  IF Get(sd, "ai_processed_data").t = "string" THEN Get(sd, "ai_processed_data")
  ELSE IF IsWrapper(Get(sd, "ai_processed_data"))
  THEN Get(Get(sd, "ai_processed_data"), "raw_response")
  ELSE Get(sd, "raw_data_preview")

\* out shows the mentions and the overview sentence that tr holds
ShowsMovers(out, tr) ==
  /\ Contains(Items(out.topGainers), Items(Get(tr, "topGainers")))
  /\ Contains(Items(out.topLosers), Items(Get(tr, "topLosers")))
  /\ Truthy(Get(tr, "marketOverview")) => out.marketOverview = Get(tr, "marketOverview")

\* C11: Everything raw-text extraction recovers reaches the result: when
\* the canonicalisation fell back to raw-text extraction, the gainer and
\* loser mentions of the text are in topGainers/topLosers and its overview
\* sentence is the marketOverview.
C11_FallbackReachesResult ==
  \A s \in SiteSet :
    (renders = 1 /\ Ran(s) /\ siteOut[s].usedFallback)
    => ShowsMovers(siteOut[s], transformRawData(FallbackText(fetched[s])))

\* the percentage cs, as [+-]?\d+\.?\d*% writes it, is not zero
NonZero(cs) == \E i \in 1..Len(cs) : cs[i] \in Digits \ {"0"}
Positive(cs) == NonZero(cs) /\ cs[1] # "-"
Negative(cs) == NonZero(cs) /\ cs[1] = "-"

\* the matches of gainerPattern in text whose percentage is above zero (up)
\* or below zero
MoverMatches(text, up) ==
  SelectSeq(MatchAll(gainerPattern, 2, text),
            LAMBDA m : IF up THEN Positive(Group(text, m, 2)) ELSE Negative(Group(text, m, 2)))

\* none of the four categories has anything in text
NothingIn(text) ==
  /\ ~Test(stockPattern, text)
  /\ ~Test(indexPattern, text)
  /\ MoverMatches(text, TRUE) = <<>> /\ MoverMatches(text, FALSE) = <<>>
  /\ \A i \in 1..Len(overviewPatterns) : ~Test(overviewPatterns[i], text)

\* C12: transformRawData returns null if and only if none of the four
\* categories (stocks, indices, gainer/loser mentions, overview sentence)
\* yielded anything; it returns null for an empty or non-string argument.
C12_NullIffNothing ==
  transformed # Pending =>
    IF rawText.t = "string" /\ rawText.s # <<>>
    THEN (transformed = Null) <=> NothingIn(rawText.s)
    ELSE transformed = Null

\* the call returned null for a text that has a mention with a zero
\* percentage and nothing else
C12_Witness ==
  /\ transformed = Null
  /\ rawText.t = "string" /\ Test(gainerPattern, rawText.s)

\* the strings pushed for the matches ms
MentionStrings(text, ms) == [i \in 1..Len(ms) |-> MentionOfMatch(text, ms[i])]

\* C13: Gainer/loser classification: a mention is in topGainers iff its
\* percentage is a number above zero and in topLosers iff it is below zero;
\* a mention with a zero percentage is in neither, and none is in both.
C13_MoverClassification ==
  (transformed # Pending /\ rawText.t = "string") =>
    IF transformed = Null
    THEN MoverMatches(rawText.s, TRUE) = <<>> /\ MoverMatches(rawText.s, FALSE) = <<>>
    ELSE /\ Items(Get(transformed, "topGainers"))
              = MentionStrings(rawText.s, MoverMatches(rawText.s, TRUE))
         /\ Items(Get(transformed, "topLosers"))
              = MentionStrings(rawText.s, MoverMatches(rawText.s, FALSE))
         /\ \A i \in 1..Len(Items(Get(transformed, "topGainers"))) :
              \A j \in 1..Len(Items(Get(transformed, "topLosers"))) :
                Items(Get(transformed, "topGainers"))[i] # Items(Get(transformed, "topLosers"))[j]

\* the call classified a text with a gainer, a loser and a zero mention
C13_Witness ==
  /\ transformed # Pending /\ transformed # Null
  /\ Len(Items(Get(transformed, "topGainers"))) + Len(Items(Get(transformed, "topLosers")))
       < Len(MatchAll(gainerPattern, 2, rawText.s))
  /\ Items(Get(transformed, "topGainers")) # <<>> \/ Items(Get(transformed, "topLosers")) # <<>>

\* the prices of the stocks as numbers (NaN where there is none)
RECURSIVE PricesFrom(_, _)
PricesFrom(stocks, i) ==
  IF i > Len(stocks) THEN <<>>
  ELSE <<ParseFloat(stocks[i].price)>> \o PricesFrom(stocks, i + 1)

PricesOf(stocks) == PricesFrom(stocks, 1)

\* stock i has a price that is a number above zero and no '-' or 'N/A'
HasPrice(stocks, prices, i) ==
  /\ prices[i].t = "number" /\ prices[i].num > 0
  /\ stocks[i].price \notin {JStr(Dash), JStr(NA)}

\* the place of stock i in a stable descending order of the priced stocks
PricePlace(stocks, prices, i) ==
  1 + Cardinality({j \in 1..Len(stocks) :
                     /\ HasPrice(stocks, prices, j)
                     /\ \/ NumLess(prices[i], prices[j])
                        \/ j < i /\ ~NumLess(prices[j], prices[i])})

\* the name as a chart shows it: cut to 15 characters and '...' when longer
CutName(name) ==
  IF Len(name.s) > 15 THEN JStr(SubSeq(name.s, 1, 15) \o <<".", ".", ".">>) ELSE name

Min(a, b) == IF a < b THEN a ELSE b

PriceRankingOf(stocks, prices, ranking) ==
  /\ Len(ranking)
       = Min(20, Cardinality({i \in 1..Len(stocks) : HasPrice(stocks, prices, i)}))
  /\ \A i \in 1..Len(stocks) :
       (HasPrice(stocks, prices, i) /\ PricePlace(stocks, prices, i) <= 20) =>
         ranking[PricePlace(stocks, prices, i)]
           = JObj([name |-> CutName(stocks[i].name), price |-> prices[i],
                   symbol |-> stocks[i].symbol])

\* prepareChartData returned the charts
HasCharts == chartData \notin {Pending, Undef, Null}

\* C14: priceRanking is the first 20 entries of a stable descending sort by
\* numeric price of the stocks whose price is a number above zero and not
\* '-' or 'N/A'; each entry keeps its symbol and a name cut to 15 characters
\* plus '...'.
C14_PriceRanking ==
  HasCharts =>
    PriceRankingOf(extractStockData(Sites, data), PricesOf(extractStockData(Sites, data)),
                   Items(Get(chartData, "priceData")))

\* more than 20 stocks have a price; the two stocks with the prices 50 and
\* 50.0 are the last two of the 20, in the order of the record
C14_Witness ==
  /\ HasCharts
  /\ NumGt(Get(chartData, "totalStocks"), 20)
  /\ Len(Items(Get(chartData, "priceData"))) = 20
  /\ Get(Items(Get(chartData, "priceData"))[19], "symbol") = JStr(Code600519)
  /\ Get(Items(Get(chartData, "priceData"))[20], "name") = CutName(JStr(LongName))

\* the magnitudes of the changes fall along the ranking
FallingMagnitude(ranking) ==
  \A i, j \in 1..Len(ranking) :
    i < j => ~NumLess(Abs(Get(ranking[i], "change")), Abs(Get(ranking[j], "change")))

\* C15: changeRanking orders by magnitude: an entry is never before one
\* with a larger |change|, and the list has at most 20 entries.
C15_ChangeByMagnitude ==
  HasCharts =>
    /\ FallingMagnitude(Items(Get(chartData, "changeData")))
    /\ Len(Items(Get(chartData, "changeData"))) <= 20

\* the stock with -9% is ranked before the stock with +3%
C15_Witness ==
  /\ HasCharts
  /\ \E i, j \in 1..Len(Items(Get(chartData, "changeData"))) :
       /\ i < j
       /\ Get(Items(Get(chartData, "changeData"))[i], "change") = JNum(-9, 1)
       /\ Get(Items(Get(chartData, "changeData"))[j], "change") = JNum(3, 1)

\* cs without a trailing percent sign
StripPercent(cs) ==
  IF cs # <<>> /\ cs[Len(cs)] = "%" THEN SubSeq(cs, 1, Len(cs) - 1) ELSE cs

\* the changePercent of the stock parses to a number
ChangeParses(stock) ==
  ParseFloatStr(StripPercent(ToStr(stock.change_percent))).t = "number"

ChangeCandidates(stocks, ranking) ==
  /\ \A k \in 1..Len(ranking) :
       \E i \in 1..Len(stocks) :
         stocks[i].symbol = Get(ranking[k], "symbol") /\ ChangeParses(stocks[i])
  /\ Cardinality({i \in 1..Len(stocks) : ChangeParses(stocks[i])}) <= 20 =>
       \A i \in 1..Len(stocks) :
         ChangeParses(stocks[i]) =>
           \E k \in 1..Len(ranking) : Get(ranking[k], "symbol") = stocks[i].symbol

\* C16: changeRanking membership: the candidates are exactly the stocks
\* whose changePercent, a trailing percent sign stripped, parses to a
\* number, whatever their price is; a stock whose changePercent does not
\* parse is never in changeRanking.
C16_ChangeMembership ==
  HasCharts =>
    ChangeCandidates(extractStockData(Sites, data), Items(Get(chartData, "changeData")))

\* the keywords of the buckets, in their priority order
BucketKeywords ==
  << [name |-> "ShangZheng", words |-> {<<"Shang", "Zheng">>}],
     [name |-> "ShenZheng", words |-> {<<"Shen", "Zheng">>}],
     [name |-> "ChuangYeBan", words |-> {<<"Chuang", "Ye", "Ban">>}],
     [name |-> "BeiZheng", words |-> {<<"Bei", "Zheng">>}],
     [name |-> "GangGu", words |-> {<<"Xiang", "Gang">>, <<"Heng", "Sheng">>}],
     [name |-> "TaiGu", words |-> {<<"Tai", "Wan">>}] >>

HasWordOf(cs, k) == \E w \in BucketKeywords[k].words : Includes(cs, w)

\* the name cs belongs to bucket b
InBucket(cs, b) ==
  IF b = "QiTa" THEN \A k \in 1..Len(BucketKeywords) : ~HasWordOf(cs, k)
  ELSE \E k \in 1..Len(BucketKeywords) :
         /\ BucketKeywords[k].name = b
         /\ HasWordOf(cs, k)
         /\ \A h \in 1..(k - 1) : ~HasWordOf(cs, h)

Buckets == {BucketKeywords[k].name : k \in 1..Len(BucketKeywords)} \cup {"QiTa"}

\* the count the pie holds for bucket b
PieCount(pie, b) ==
  IF \E k \in 1..Len(pie) : Get(pie[k], "name") = JStr(<<b>>)
  THEN (CHOOSE e \in {pie[k] : k \in 1..Len(pie)} : Get(e, "name") = JStr(<<b>>)).f.value.num
  ELSE 0

Distribution(stocks, pie) ==
  \A b \in Buckets :
    PieCount(pie, b)
      = Cardinality({i \in 1..Len(stocks) :
                       /\ stocks[i].name.t = "string"
                       /\ Includes(stocks[i].name.s, <<"Zhi", "Shu">>)
                       /\ InBucket(stocks[i].name.s, b)})

\* C17: marketTypeDistribution: every stock of the snapshot whose name
\* contains 指数 is counted in exactly one bucket, the first of 上证, 深证,
\* 创业板, 北证, 港股, 台股 whose keyword the name has, otherwise 其他; the
\* counts add up to the number of such stocks.
C17_MarketDistribution ==
  HasCharts =>
    Distribution(extractStockData(Sites, data), Items(Get(chartData, "pieData")))

\* the cells of a row as one text, a blank between two cells
RECURSIVE RowText(_, _)
RowText(cells, i) ==
  IF i > Len(cells) THEN <<>>
  ELSE (IF i > 1 THEN <<" ">> ELSE <<>>) \o cells[i].s \o RowText(cells, i + 1)

\* a letter, a digit or an underscore stands at position p of text
WordAt(text, p) == p >= 1 /\ p <= Len(text) /\ text[p] \in Letters \cup Digits

\* six digits that start at p, the first of them 0-3 or 6, stand on their own
CodeAt(text, p) ==
  /\ p + 5 <= Len(text)
  /\ text[p] \in {"0", "1", "2", "3", "6"}
  /\ \A k \in 0..5 : text[p + k] \in Digits
  /\ ~WordAt(text, p - 1) /\ ~WordAt(text, p + 6)

HasCode(cells) == \E p \in 1..Len(RowText(cells, 1)) : CodeAt(RowText(cells, 1), p)

\* the first code of a row that has one
FirstCode(text) ==
  SubSeq(text, CHOOSE p \in 1..Len(text) :
                 CodeAt(text, p) /\ \A q \in 1..(p - 1) : ~CodeAt(text, q),
         (CHOOSE p \in 1..Len(text) :
                 CodeAt(text, p) /\ \A q \in 1..(p - 1) : ~CodeAt(text, q)) + 5)

\* the rows of the table that are to give a stock, in their order
RECURSIVE YieldingRows(_, _)
YieldingRows(rows, i) ==
  IF i > Len(rows) THEN <<>>
  ELSE (IF i > 1 /\ Len(rows[i].a) >= 2 /\ HasCode(rows[i].a) THEN <<rows[i].a>> ELSE <<>>)
         \o YieldingRows(rows, i + 1)

OneStockPerRow(rows, stocks) ==
  /\ Len(stocks) = Len(rows)
  /\ \A k \in 1..Len(rows) :
       Get(stocks[k], "symbol") = JStr(FirstCode(RowText(rows[k], 1)))

\* the table was gone through
TableDone == allTableStocks \notin {Pending, Undef}

\* C18: row 0 of a table never gives a stock; a later row of at least two
\* cells gives exactly one stock if and only if it holds a six-digit code
\* that starts with 0-3 or 6, and a row of fewer than two cells gives none.
C18_TableRowRule ==
  TableDone =>
    /\ ~allTableStocks.threw
    /\ OneStockPerRow(YieldingRows(table, 1), allTableStocks.stocks)

\* the header 代码, 名称, 价格 and the row 600000, 浦发银行, 10.50 gave one stock
C18_Witness ==
  /\ TableDone
  /\ table = <<HeaderRow, DataRow>>
  /\ Len(allTableStocks.stocks) = 1
  /\ Get(allTableStocks.stocks[1], "symbol") = JStr(Code600000)

Unknown == JStr(NA)

\* no field of the stock is a cell of another kind: the code or the price is
\* not its change or its volume, and a row of code, name and price leaves
\* change, changePercent and volume unknown
NothingFabricated(row, stock) ==
  /\ Get(stock, "change") \notin {Get(stock, "symbol"), Get(stock, "price")}
  /\ Get(stock, "volume") \notin {Get(stock, "symbol"), Get(stock, "price")}
  /\ Get(stock, "change_percent") # Unknown =>
       Get(stock, "change_percent").s[Len(Get(stock, "change_percent").s)] = "%"
  /\ row = DataRow.a =>
       /\ Get(stock, "change") = Unknown
       /\ Get(stock, "change_percent") = Unknown
       /\ Get(stock, "volume") = Unknown

FieldsOfRows(rows, stocks) ==
  Len(stocks) = Len(rows) /\ \A k \in 1..Len(rows) : NothingFabricated(rows[k], stocks[k])

\* C19: the table extraction never makes a field up: change, changePercent
\* and volume of an extracted row are a cell of that kind or unknown
\* ('N/A'); the code cell or the price cell is never the change or the
\* volume, and a row without such a cell leaves the field unknown.
C19_NoFabricatedField ==
  (TableDone /\ ~allTableStocks.threw) =>
    FieldsOfRows(YieldingRows(table, 1), allTableStocks.stocks)

\* the stock list a processed datum offers: the datum itself or its stocks
OfferedIn(pd) ==
  IF pd.t = "array" THEN pd.a
  ELSE IF pd.t = "object" /\ Get(pd, "stocks").t = "array" THEN Get(pd, "stocks").a
  ELSE <<>>

\* the stock list a site of the record offers
OfferedStocks(sd) ==
  IF sd.t = "object" THEN OfferedIn(Get(sd, "ai_processed_data")) ELSE <<>>

\* the offered stocks that are real stocks: an object with a symbol, neither
\* symbol nor name a placeholder
AcceptedOf(offered) ==
  SelectSeq(offered,
            LAMBDA e : /\ e.t = "object"
                       /\ Truthy(Get(e, "symbol"))
                       /\ ~IsPlaceholder(Get(e, "symbol"), Get(e, "name")))

\* the number of accepted stocks of the sites from i on
RECURSIVE AcceptedFrom(_, _)
AcceptedFrom(d, i) ==
  IF i > Len(Sites) THEN 0
  ELSE Len(AcceptedOf(OfferedStocks(d[Sites[i]]))) + AcceptedFrom(d, i + 1)

\* the symbols of a list of stock values, in their order
SymbolsOf(accepted) == [i \in 1..Len(accepted) |-> Get(accepted[i], "symbol")]

\* the symbols of the aggregated stocks tagged with site y, in their order
SymbolsTagged(stocks, y) ==
  [i \in 1..Len(TaggedWith(stocks, y)) |-> TaggedWith(stocks, y)[i].symbol]

\* C20: no deduplication across sources: every stock accepted under a site
\* has its own entry tagged with that site, whatever the other sites hold,
\* and the aggregated list is as long as the accepted stocks of all sites
\* together.
C20_NoDeduplication ==
  agg.done =>
    /\ \A s \in SiteSet :
         SymbolsTagged(agg.stocks, s) = SymbolsOf(AcceptedOf(OfferedStocks(aggSnap[s])))
    /\ Len(agg.stocks) = AcceptedFrom(aggSnap, 1)

\* the same ticker is in the aggregated list twice, under two sites
C20_Witness ==
  /\ agg.done
  /\ \E i, j \in 1..Len(agg.stocks) :
       /\ i < j
       /\ agg.stocks[i].symbol = agg.stocks[j].symbol
       /\ agg.stocks[i].site # agg.stocks[j].site

\* record i of the list is the one with the latest timestamp
IsLatest(rs, i) == \A j \in 1..Len(rs) : rs[j].timestamp <= rs[i].timestamp

\* the charts are those of the latest record of the list alone
ChartsOfLatest(rs, charts) ==
  IF Len(rs) = 0 THEN charts = Null
  ELSE \E i \in 1..Len(rs) :
         IsLatest(rs, i) /\ charts = ChartsOfStocks(StocksOfRecord(rs[i]))

\* prepareChartData ran on the list
ChartsDone == chartData \notin {Pending, Undef}

\* C21: the chart aggregates depend on the single most recent snapshot: for
\* any list of fetched records they are computed from the record with the
\* latest timestamp and from no other record.
C21_LatestSnapshotOnly == ChartsDone => ChartsOfLatest(records, chartData)

\* the result of a site is entirely empty and carries no error
EntirelyEmpty(out) ==
  /\ AllEmpty(out)
  /\ out.marketOverview = JStr(NA) /\ ~Truthy(out.tradingSummary)
  /\ ~out.hadError

WebScraped == {"tonghuashun", "dongfangcaifu", "xueqiu", "tongdaxin", "caijinglian"}

\* C22: web-scraped suppression: a site of the web-scraped list whose result
\* is entirely empty without an error is reported as nothing to display,
\* whatever payload led to the empty result; a site that is not on the list
\* shows an empty or error state for the same outcome.
C22_WebScrapedSuppression ==
  \A s \in SiteSet :
    (Ran(s) /\ EntirelyEmpty(siteOut[s])) =>
      (siteOut[s].display = "hidden") = (s \in WebScraped)

\* C23: retained candidates: every stock extractStockData returns has a
\* present, non-empty symbol that is no placeholder and a name that is
\* neither 'N/A' nor 'company name'.
C23_RetainedCandidates ==
  agg.done =>
    \A i \in 1..Len(agg.stocks) :
      /\ Truthy(agg.stocks[i].symbol)
      /\ agg.stocks[i].symbol \notin PlaceholderSymbols
      /\ agg.stocks[i].name # JStr(NA)
      /\ agg.stocks[i].name # JStr(<<"c", "o", "m", "p", "a", "n", "y", " ", "n", "a", "m", "e">>)

\* transformRawData returned
TextDone == transformed \notin {Pending, Undef}

\* the stocks and the indices of what transformRawData returned
StocksFound == IF transformed = Null THEN <<>> ELSE Items(Get(transformed, "stocks"))
IndicesFound == IF transformed = Null THEN <<>> ELSE Items(Get(transformed, "indices"))

StockCandidate(code, name, price, change, percent) ==
  JObj([symbol |-> JStr(code), name |-> JStr(name), price |-> JStr(price),
        change |-> JStr(change), change_percent |-> JStr(percent), volume |-> JStr(NA)])

\* C24: raw-text extraction of a text made of a 6-digit code, a name token,
\* a decimal price, a signed change and a signed percentage, separated by
\* ':', whitespace or ',', gives one stock candidate with exactly those five
\* values and the volume unknown.
C24_StockMention ==
  TextDone =>
    \A c \in MentionCodes, n \in MentionNames, p \in MentionPrices :
      \A ch \in MentionChanges, pc \in MentionPercents :
        \A s1, s2 \in MentionSeps :
          rawText = JStr(StockMention(c, n, p, ch, pc, s1, s2)) =>
            StocksFound = <<StockCandidate(c, n, p, ch, pc)>>

\* 600519:贵州茅台:1688.00:+12.50:+0.75% gave its stock
C24_Witness ==
  /\ TextDone
  /\ rawText = JStr(RawStockText)
  /\ StocksFound
       = <<StockCandidate(Code600519, MaoTai, <<"1", "6", "8", "8", ".", "0", "0">>,
                          <<"+", "1", "2", ".", "5", "0">>,
                          <<"+", "0", ".", "7", "5", "%">>)>>

\* the names of the closed index vocabulary
Vocabulary == {IndexNames[i] : i \in 1..Len(IndexNames)}

\* the index candidates a mention is to give: one for a name of the
\* vocabulary, none for another name
IndexCandidates(name, value, tail) ==
  IF name \in Vocabulary
  THEN <<JObj([name |-> JStr(name), value |-> JStr(value), change |-> JStr(NA),
               change_percent |-> IF tail.percent = <<>> THEN JStr(NA) ELSE JStr(tail.percent)])>>
  ELSE <<>>

\* C25: raw-text extraction gives one index candidate per occurrence of a
\* name of the closed vocabulary followed by a decimal value, with the
\* parenthesized or trailing signed percentage as its changePercent if there
\* is one, and none for a name outside the vocabulary.
C25_IndexRecognition ==
  TextDone =>
    /\ \A n \in MentionIndexNames, s \in IndexSeps, v \in IndexValues, t \in IndexTails :
         rawText = JStr(IndexMention(n, s, v, t)) => IndicesFound = IndexCandidates(n, v, t)
    /\ \A n1, n2 \in MentionIndexNames, t1, t2 \in IndexTails :
         rawText = JStr(IndexMention(n1, <<":", " ">>, <<"2", "5", "0", "0">>, t1) \o <<" ">>
                          \o IndexMention(n2, <<":", " ">>, <<"2", "5", "0", "0">>, t2))
           => IndicesFound = IndexCandidates(n1, <<"2", "5", "0", "0">>, t1)
                               \o IndexCandidates(n2, <<"2", "5", "0", "0">>, t2)

\* 上证指数: 3123.45 (+0.45%) gave exactly one index, 上证指数 3123.45 +0.45%
C25_Witness ==
  /\ TextDone
  /\ rawText = JStr(RawIndexText)
  /\ IndicesFound
       = <<JObj([name |-> JStr(<<"Shang", "Zheng", "Zhi", "Shu">>),
                 value |-> JStr(<<"3", "1", "2", "3", ".", "4", "5">>),
                 change |-> JStr(NA),
                 change_percent |-> JStr(<<"+", "0", ".", "4", "5", "%">>)])>>

\* the delayed refresh of a successful POST /crawl has not completed
CrawlWindow == timers > 0 \/ calls.refresh > 0

\* C26: from the success of POST /crawl until its delayed fetchLatestData has
\* completed, loading is true, the crawl button is disabled and no other
\* POST /crawl is in flight, whatever other fetchLatestData completes meanwhile.
C26_LoadingThroughCrawl ==
  CrawlWindow => loading /\ ButtonDisabled /\ calls.post = 0

\* C27: every state with loading = true is followed by a state with
\* loading = false, when every request is answered and every timer fires.
C27_LoadingCleared == loading ~> ~loading

\* a crawl was posted, and loading is false again with nothing pending
C27_Witness ==
  /\ Len(posted) > 0 /\ ~loading
  /\ calls.post = 0 /\ calls.latest = 0 /\ calls.refresh = 0 /\ timers = 0

\* the last fetched status is an object whose can_crawl is false
RateLimited ==
  manualCrawlStatus.t = "object" /\ Get(manualCrawlStatus, "can_crawl") = JBool(FALSE)

\* the status let a crawl through: none fetched, or one whose can_crawl is true
CrawlAllowed(status) ==
  status \in {Null, Undef} \/ (status.t = "object" /\ Get(status, "can_crawl") = JBool(TRUE))

\* C28: a call of triggerCrawl while the last fetched status has can_crawl =
\* false sends no POST /crawl, schedules no timer and leaves loading and data
\* unchanged; every POST /crawl was sent from a state with no status or with
\* can_crawl = true.
C28_RateLimitGuard ==
  /\ [](\A i \in 1..Len(posted) : CrawlAllowed(posted[i]))
  /\ [][(triggered' # triggered /\ RateLimited)
          => UNCHANGED <<loading, records, calls, timers, posted>>]_vars

\* triggerCrawl was called while rate limited
C28_Witness == triggered > Len(posted) /\ RateLimited

\* the record of the last call among the two named handlers, Null after the
\* closing one or when neither was called
RECURSIVE RecRecentOpen(_, _, _, _)
RecRecentOpen(log, n, opener, closer) ==
  IF n = 0 THEN Null
  ELSE IF log[n].op = opener THEN log[n].record
  ELSE IF log[n].op = closer THEN Null
  ELSE RecRecentOpen(log, n - 1, opener, closer)

DetailOps == {"handleOpenModal", "handleCloseModal"}

\* C29: modalOpen is true iff selectedRecord is not null, jsonModalOpen is
\* true iff jsonData is not null, selectedRecord is the record of the most
\* recent handleOpenModal not followed by a handleCloseModal, and a handler
\* of one modal leaves the state of the other modal unchanged.
C29_ModalState ==
  /\ [](/\ modalOpen <=> selectedRecord # Null
        /\ jsonModalOpen <=> jsonData # Null
        /\ selectedRecord
             = RecRecentOpen(handled, Len(handled), "handleOpenModal", "handleCloseModal"))
  /\ [][Len(handled') > Len(handled)
          => IF handled'[Len(handled')].op \in DetailOps
             THEN UNCHANGED <<jsonModalOpen, jsonData>>
             ELSE UNCHANGED <<modalOpen, selectedRecord>>]_vars

\* both modals open on different records, then the detail modal closed
C29_Witness ==
  /\ Len(handled) = 3 /\ handled[3].op = "handleCloseModal"
  /\ ~modalOpen /\ jsonModalOpen /\ jsonData # handled[1].record
  /\ handled[1].op = "handleOpenModal"

\* every call of fetchStocks got its response, and got it without error
AllSucceeded ==
  /\ Len(stocksCalls) > 0
  /\ \A i \in 1..Len(stocksCalls) : stocksCalls[i].state = "ok"

\* C30: once every GET /stocks has completed successfully, stocksData and
\* stocksTotal are the answer to the current page, page size, sort field,
\* sort direction and filter, in whatever order the responses arrived; and
\* stocksLoading is false when no request is in flight.
C30_LatestQueryShown ==
  /\ AllSucceeded => /\ stocksData = ServerStocks(CurrentQuery).stocks
                     /\ stocksTotal = ServerStocks(CurrentQuery).total
  /\ InFlight = {} => ~stocksLoading

====
